---- MODULE Spec2Model ----
(***************************************************************************)
(* Model of the content-relevance analyzer of the reading tracker          *)
(* (class UniversalContentAnalyzer).  analyzeContent is a function of the   *)
(* url, the title, the content and the analyzer's userPreferences.          *)
(*                                                                         *)
(* Text.  A text is a sequence of runs [w |-> word, n |-> count]: the       *)
(* string made of n copies of word w for each run in turn, all joined by    *)
(* single spaces.  Words come from Vocabulary; every lexical table of the   *)
(* analyzer (regular expressions, keyword and domain lists) is given by the *)
(* alternatives of the source that a single vocabulary word can match.  No  *)
(* sequence of vocabulary words forms one of the source's multi-word        *)
(* alternatives ("how to", "case study", "top \d+", ...).                   *)
(*                                                                         *)
(* Numbers.  The source computes in IEEE doubles.  Every product and sum of *)
(* calculateLearningScore is evaluated here in hundredths, as integers; the *)
(* percentages of analyzeLanguage are compared by cross-multiplication.     *)
(* For the sub-scores the analyzer can produce (multiples of 5 for quality, *)
(* integers for the others, 20*k for topical relevance) the double          *)
(* evaluation and the exact one round to the same integer, and m/n*100      *)
(* compares with 70 and with 5 as 100*m compares with 70*n and 5*n.         *)
(***************************************************************************)
EXTENDS Integers, Sequences, FiniteSets, TLC

(***************************************************************************)
(* Vocabulary: the words texts are made of, with their length in UTF-16     *)
(* code units, the number of characters in [a-zA-Z] and the number in the   *)
(* Telugu block U+0C00..U+0C7F.  "te_vidya" stands for the five-character   *)
(* Telugu word U+0C35 U+0C3F U+0C26 U+0C4D U+0C2F.                          *)
(***************************************************************************)
WordInfo ==
  [ the            |-> [len |-> 3,  letters |-> 3,  telugu |-> 0],
    politics       |-> [len |-> 8,  letters |-> 8,  telugu |-> 0],
    transports     |-> [len |-> 10, letters |-> 10, telugu |-> 0],
    viral          |-> [len |-> 5,  letters |-> 5,  telugu |-> 0],
    algorithm      |-> [len |-> 9,  letters |-> 9,  telugu |-> 0],
    research       |-> [len |-> 8,  letters |-> 8,  telugu |-> 0],
    innovation     |-> [len |-> 10, letters |-> 10, telugu |-> 0],
    python         |-> [len |-> 6,  letters |-> 6,  telugu |-> 0],
    tutorial       |-> [len |-> 8,  letters |-> 8,  telugu |-> 0],
    implementation |-> [len |-> 14, letters |-> 14, telugu |-> 0],
    api            |-> [len |-> 3,  letters |-> 3,  telugu |-> 0],
    step           |-> [len |-> 4,  letters |-> 4,  telugu |-> 0],
    build          |-> [len |-> 5,  letters |-> 5,  telugu |-> 0],
    source         |-> [len |-> 6,  letters |-> 6,  telugu |-> 0],
    why            |-> [len |-> 3,  letters |-> 3,  telugu |-> 0],
    qmark          |-> [len |-> 1,  letters |-> 0,  telugu |-> 0],
    fence          |-> [len |-> 3,  letters |-> 0,  telugu |-> 0],
    li             |-> [len |-> 4,  letters |-> 2,  telugu |-> 0],
    year           |-> [len |-> 4,  letters |-> 0,  telugu |-> 0],
    link           |-> [len |-> 14, letters |-> 9,  telugu |-> 0],
    te_vidya       |-> [len |-> 5,  letters |-> 0,  telugu |-> 5],
    a              |-> [len |-> 1,  letters |-> 1,  telugu |-> 0],
    on             |-> [len |-> 2,  letters |-> 2,  telugu |-> 0],
    transformer    |-> [len |-> 11, letters |-> 11, telugu |-> 0],
    architecture   |-> [len |-> 12, letters |-> 12, telugu |-> 0],
    thread         |-> [len |-> 6,  letters |-> 6,  telugu |-> 0] ]

\* "qmark" is the token ?, "fence" the token ```, "li" the token <li>,
\* "year" the token 2024, "link" the token https://t.co/x.
Vocabulary == DOMAIN WordInfo

Run(w, n) == [w |-> w, n |-> n]

\* A run of zero copies contributes nothing to the string.
Text(runs) == SelectSeq(runs, LAMBDA r : r.n > 0)

RECURSIVE Total(_, _)
\* Sum over the words of a text of wt[word].
Total(text, wt) ==
  IF text = <<>> THEN 0
  ELSE Head(text).n * wt[Head(text).w] + Total(Tail(text), wt)

Indicator(S) == [w \in Vocabulary |-> IF w \in S THEN 1 ELSE 0]

\* Mutant of countWords: the empty strings not filtered out, so that the empty
\* text, which splits into one empty string, counts one word.
countWords_NoFilter(text) ==
  IF text = <<>> THEN 1 ELSE Total(text, [w \in Vocabulary |-> 1])

\* text.trim().split(/\s+/).filter(word => word.length > 0).length
countWords(text) == Total(text, [w \in Vocabulary |-> 1])

\* text.length: the characters of the words and the spaces between them.
StringLength(text) ==
  IF countWords(text) = 0 THEN 0
  ELSE Total(text, [w \in Vocabulary |-> WordInfo[w].len]) + countWords(text) - 1

\* title + ' ' + content
titleAndContent(title, content) == title \o content

\* The words of a text, as a set.
WordsOf(text) == {text[i].w : i \in DOMAIN text}

\* Number of matches of /\b(a1|a2|...)\b/gi in a text: the occurrences of the
\* words that are one of the alternatives.
MatchCount(alternatives, text) == Total(text, Indicator(alternatives))

\* /\b(a1|a2|...)\b/gi.test(text)
Test(alternatives, text) == WordsOf(text) \cap alternatives # {}

\* The keywords that occur inside a vocabulary word without being the word.
ProperSubstrings == {<<"transports", "sports">>}

\* word.includes(keyword), both in lower case.
WordIncludes(w, keyword) == w = keyword \/ <<w, keyword>> \in ProperSubstrings

\* text.toLowerCase().includes(keyword.toLowerCase()) for a keyword without
\* spaces: some word of the text includes it.
TextIncludes(text, keyword) == \E w \in WordsOf(text) : WordIncludes(w, keyword)

(***************************************************************************)
(* Configuration set by the constructor.                                    *)
(***************************************************************************)
DefaultMinimumLearningScore == 50

minimumWordCount == 300

blockedKeywords == {"politics", "celebrity", "sports", "gossip"}

\* The configured topics in the enumeration order of relevantTopics.
TopicOrder == <<"technology", "science", "education", "business", "future">>

Topics == {TopicOrder[i] : i \in DOMAIN TopicOrder}

\* The single-word keywords of each topic, as written in the source.
relevantTopics ==
  [ technology |->
      {"programming", "software", "development", "coding", "AI", "blockchain",
       "cybersecurity", "devops", "frontend", "backend", "fullstack",
       "javascript", "python", "react", "nodejs", "database", "api",
       "framework", "library", "algorithm", "architecture", "microservices",
       "docker", "kubernetes", "aws"},
    science |->
      {"research", "experiment", "discovery", "physics", "chemistry",
       "biology", "mathematics", "engineering", "quantum", "nanotechnology",
       "biotechnology", "neuroscience", "genetics", "astronomy", "climate",
       "energy", "materials", "hypothesis", "theory", "analysis"},
    education |->
      {"learning", "teaching", "education", "course", "curriculum",
       "pedagogy", "certification", "training", "mentorship", "tutorial",
       "guide", "howto", "explained", "introduction", "beginner", "advanced",
       "masterclass", "workshop", "seminar", "lecture"},
    business |->
      {"entrepreneurship", "startup", "management", "leadership",
       "productivity", "innovation", "growth", "scaling", "marketing", "sales",
       "finance", "operations", "strategy", "planning", "execution", "metrics",
       "optimization", "automation", "efficiency"},
    future |->
      {"future", "trends", "innovation", "disruption", "automation",
       "robotics", "sustainability", "breakthrough", "advancement",
       "revolution", "transformation", "pioneering"} ]

\* The single-word alternatives of each learning pattern, in lower case (the
\* patterns are case-insensitive).
learningPatterns ==
  << {"tutorial", "guide", "learn", "explained", "beginner", "advanced"},
     {"implementation", "algorithm", "architecture"},
     {"insights", "analysis", "comprehensive"},
     {"emerging", "trends", "innovation", "breakthrough", "research"},
     {"skills", "certification", "career", "development", "training", "mastery"},
     {"solution", "solve", "problem", "challenge", "approach", "method",
      "technique"},
     {"documentation", "specification", "requirements", "design", "review"},
     {"strategy", "strategic", "disruption", "transformation", "pivot",
      "adaptation"},
     {"entrepreneurship", "startup", "founder", "ceo", "leadership",
      "management", "execution"},
     {},
     {"failure"},
     {"historical", "example", "demonstrates", "illustrates", "proves"},
     {},
     {"consider", "understand", "realize", "recognize"},
     {} >>

\* The single-word alternatives of each negative pattern.
negativePatterns ==
  << {"urgent", "alert"},
     {"celebrity", "gossip", "scandal", "controversy", "drama", "rumor",
      "shocking"},
     {"shocking", "amazing", "incredible", "unbelievable"},
     {},
     {"election", "politics", "political", "government", "policy", "debate",
      "partisan"},
     {"score", "match", "game", "tournament", "championship", "winner",
      "defeat", "victory"},
     {"viral", "trending", "meme", "outrage"},
     {"listicle", "ranking", "countdown", "compilation"} >>

RECURSIVE PatternMatches(_, _)
\* patterns.forEach(pattern => { const matches = text.match(pattern);
\*                               if (matches) count += matches.length; })
PatternMatches(patterns, text) ==
  IF patterns = <<>> THEN 0
  ELSE MatchCount(Head(patterns), text) + PatternMatches(Tail(patterns), text)

Min(a, b) == IF a <= b THEN a ELSE b

(***************************************************************************)
(* analyzeLanguage.  englishCount / length * 100 and teluguCount / length   *)
(* * 100 are the source's englishPercentage and teluguPercentage (0 when    *)
(* there is no match).                                                      *)
(***************************************************************************)
\* Mutant of analyzeLanguage: englishPercentage >= 70 in place of > 70 and
\* teluguPercentage <= 5 in place of < 5.
analyzeLanguage_Inclusive(content) ==
  LET length       == StringLength(content)
      teluguCount  == Total(content, [w \in Vocabulary |-> WordInfo[w].telugu])
      englishCount == Total(content, [w \in Vocabulary |-> WordInfo[w].letters])
      isEnglishContent ==
        /\ englishCount > 0 /\ 100 * englishCount >= 70 * length
        /\ teluguCount = 0 \/ 100 * teluguCount <= 5 * length
  IN  [ isEnglishContent |-> isEnglishContent,
        englishCount     |-> englishCount,
        teluguCount      |-> teluguCount,
        length           |-> length,
        languageScore    |-> IF isEnglishContent THEN 100 ELSE 0 ]

analyzeLanguage(content) ==
  LET length       == StringLength(content)
      teluguCount  == Total(content, [w \in Vocabulary |-> WordInfo[w].telugu])
      englishCount == Total(content, [w \in Vocabulary |-> WordInfo[w].letters])
      englishAbove70 == englishCount > 0 /\ 100 * englishCount > 70 * length
      teluguBelow5   == teluguCount = 0 \/ 100 * teluguCount < 5 * length
      isEnglishContent == englishAbove70 /\ teluguBelow5
  IN  [ isEnglishContent |-> isEnglishContent,
        englishCount     |-> englishCount,
        teluguCount      |-> teluguCount,
        length           |-> length,
        languageScore    |-> IF isEnglishContent THEN 100 ELSE 0 ]

(***************************************************************************)
(* detectNegativeSignals: the gate.                                         *)
(***************************************************************************)
\* Mutant of GateReason: the length check reported before the blocklist.
GateReason_LengthFirst(hasBlockedKeywords, negativeScore, isTooShort, isWrongLanguage) ==
  IF isTooShort THEN "Content too short"
  ELSE IF hasBlockedKeywords THEN "Contains blocked keywords"
  ELSE IF negativeScore > 3 THEN "Too many negative signals"
  ELSE IF isWrongLanguage THEN "Non-English content"
  ELSE ""

GateReason(hasBlockedKeywords, negativeScore, isTooShort, isWrongLanguage) ==
  IF hasBlockedKeywords THEN "Contains blocked keywords"
  ELSE IF negativeScore > 3 THEN "Too many negative signals"
  ELSE IF isTooShort THEN "Content too short"
  ELSE IF isWrongLanguage THEN "Non-English content"
  ELSE ""

\* Mutant of GateShouldBlock: blocks from three negative matches on.
GateShouldBlock_AtThree(hasBlockedKeywords, negativeScore, isTooShort, isWrongLanguage) ==
  hasBlockedKeywords \/ negativeScore >= 3 \/ isTooShort \/ isWrongLanguage

\* Mutant of GateShouldBlock: the language condition left out.
GateShouldBlock_NoLanguage(hasBlockedKeywords, negativeScore, isTooShort, isWrongLanguage) ==
  hasBlockedKeywords \/ negativeScore > 3 \/ isTooShort

GateShouldBlock(hasBlockedKeywords, negativeScore, isTooShort, isWrongLanguage) ==
  hasBlockedKeywords \/ negativeScore > 3 \/ isTooShort \/ isWrongLanguage

detectNegativeSignals(title, content, url) ==
  LET text == titleAndContent(title, content)
      hasBlockedKeywords == \E keyword \in blockedKeywords : TextIncludes(text, keyword)
      negativeScore      == PatternMatches(negativePatterns, text)
      wordCount          == countWords(content)
      isTooShort         == wordCount < minimumWordCount
      isWrongLanguage    == ~analyzeLanguage(content).isEnglishContent
  IN  [ shouldBlock        |-> GateShouldBlock(hasBlockedKeywords, negativeScore,
                                               isTooShort, isWrongLanguage),
        reason             |-> GateReason(hasBlockedKeywords, negativeScore,
                                          isTooShort, isWrongLanguage),
        hasBlockedKeywords |-> hasBlockedKeywords,
        negativeScore      |-> negativeScore,
        isTooShort         |-> isTooShort,
        isWrongLanguage    |-> isWrongLanguage ]

(***************************************************************************)
(* analyzeContentQuality and calculateQualityScore.                         *)
(***************************************************************************)
\* Mutant of calculateQualityScore: the tiers start above their thresholds.
calculateQualityScore_StrictTiers(wordCount, readingTime, hasCodeExamples, hasStructure, hasReferences) ==
  LET words   == IF wordCount > 1000 THEN 30
                 ELSE IF wordCount > 500 THEN 20
                 ELSE IF wordCount > 300 THEN 10
                 ELSE 0
      reading == IF readingTime > 10 THEN 20
                 ELSE IF readingTime > 5 THEN 15
                 ELSE IF readingTime > 3 THEN 10
                 ELSE 0
      score   == words + reading
                 + (IF hasCodeExamples THEN 15 ELSE 0)
                 + (IF hasStructure THEN 10 ELSE 0)
                 + (IF hasReferences THEN 15 ELSE 0)
  IN  Min(score, 100)

calculateQualityScore(wordCount, readingTime, hasCodeExamples, hasStructure, hasReferences) ==
  LET words   == IF wordCount >= 1000 THEN 30
                 ELSE IF wordCount >= 500 THEN 20
                 ELSE IF wordCount >= 300 THEN 10
                 ELSE 0
      reading == IF readingTime >= 10 THEN 20
                 ELSE IF readingTime >= 5 THEN 15
                 ELSE IF readingTime >= 3 THEN 10
                 ELSE 0
      score   == words + reading
                 + (IF hasCodeExamples THEN 15 ELSE 0)
                 + (IF hasStructure THEN 10 ELSE 0)
                 + (IF hasReferences THEN 15 ELSE 0)
  IN  Min(score, 100)

\* Words matching /<code[^>]*>|```|.../, /<h[1-6]>|<li>|.../,
\* /\b(source|reference|...)\b/ and /<a\s+href|https?:\/\/[^\s<>]+/.
CodeWords == {"fence"}

StructureWords == {"li"}

ReferenceWords ==
  {"source", "reference", "citation", "study", "paper", "documentation", "docs"}

LinkWords == {"link"}

analyzeContentQuality(content) ==
  LET wordCount       == countWords(content)
      readingTime     == (wordCount + 249) \div 250
      hasCodeExamples == Test(CodeWords, content)
      hasStructure    == Test(StructureWords, content)
      hasReferences   == Test(ReferenceWords, content)
      hasLinks        == Test(LinkWords, content)
  IN  [ wordCount       |-> wordCount,
        readingTime     |-> readingTime,
        hasCodeExamples |-> hasCodeExamples,
        hasStructure    |-> hasStructure,
        hasReferences   |-> hasReferences,
        hasLinks        |-> hasLinks,
        qualityScore    |-> calculateQualityScore(wordCount, readingTime,
                              hasCodeExamples, hasStructure, hasReferences) ]

(***************************************************************************)
(* detectLearningSignals, calculateLearningIndicatorScore and               *)
(* countTechnicalTerms.                                                     *)
(***************************************************************************)
\* Mutant of calculateLearningIndicatorScore: the keyword part not capped at 40.
calculateLearningIndicatorScore_NoKeywordCap(indicators) ==
  LET score == indicators.keywords * 8
               + (IF indicators.qa THEN 15 ELSE 0)
               + (IF indicators.stepByStep THEN 10 ELSE 0)
               + Min(indicators.technical * 3, 20)
               + (IF indicators.actionable THEN 15 ELSE 0)
  IN  Min(score, 100)

calculateLearningIndicatorScore(indicators) ==
  LET score == Min(indicators.keywords * 8, 40)
               + (IF indicators.qa THEN 15 ELSE 0)
               + (IF indicators.stepByStep THEN 10 ELSE 0)
               + Min(indicators.technical * 3, 20)
               + (IF indicators.actionable THEN 15 ELSE 0)
  IN  Min(score, 100)

\* The terms are matched whole-word and case-insensitively.
technicalTerms ==
  {"api", "sdk", "cli", "ide", "http", "json", "xml", "sql", "nosql", "rest",
   "graphql", "oauth", "jwt", "cors", "cdn", "dns", "ssl", "regex", "async",
   "await", "promise", "callback", "closure", "scope", "prototype",
   "inheritance", "polymorphism", "encapsulation", "abstraction"}

countTechnicalTerms(text) == MatchCount(technicalTerms, text)

Interrogatives == {"what", "why", "how", "when", "where"}

QuestionMarkWords == {"qmark"}

\* /\b(what|why|how|when|where)\b.*\?/gi.test(text): an interrogative with a
\* question mark after it (the text has no line break).
hasQuestionAnswerFormat(text) ==
  \E i, j \in DOMAIN text :
     i < j /\ text[i].w \in Interrogatives /\ text[j].w \in QuestionMarkWords

StepWords == {"step", "steps", "stage", "phase", "process", "procedure"}

ActionWords ==
  {"implement", "build", "create", "develop", "design", "optimize", "improve"}

detectLearningSignals(title, content) ==
  LET text == titleAndContent(title, content)
      learningKeywordCount == PatternMatches(learningPatterns, text)
      qa                   == hasQuestionAnswerFormat(text)
      hasStepByStep        == Test(StepWords, text)
      hasTechnicalTerms    == countTechnicalTerms(text)
      hasActionableContent == Test(ActionWords, text)
  IN  [ learningKeywordCount    |-> learningKeywordCount,
        hasQuestionAnswerFormat |-> qa,
        hasStepByStep           |-> hasStepByStep,
        hasTechnicalTerms       |-> hasTechnicalTerms,
        hasActionableContent    |-> hasActionableContent,
        learningScore |-> calculateLearningIndicatorScore(
                            [ keywords   |-> learningKeywordCount,
                              qa         |-> qa,
                              stepByStep |-> hasStepByStep,
                              technical  |-> hasTechnicalTerms,
                              actionable |-> hasActionableContent ]) ]

(***************************************************************************)
(* analyzeTopics.                                                           *)
(***************************************************************************)
\* The regular expression built from a keyword is case-insensitive and the
\* text is lower case: "AI" matches the word "ai".  includes() is not.
LowerCase(keyword) == IF keyword = "AI" THEN "ai" ELSE keyword

\* Mutant of KeywordScore: the keyword is matched in the content alone.
KeywordScore_ContentOnly(keyword, title, content) ==
  MatchCount({LowerCase(keyword)}, content)

\* matches.length * (title.toLowerCase().includes(keyword) ? 2 : 1), 0 without
\* a match of the keyword in title + ' ' + content.
KeywordScore(keyword, title, content) ==
  MatchCount({LowerCase(keyword)}, titleAndContent(title, content))
    * (IF TextIncludes(title, keyword) THEN 2 ELSE 1)

RECURSIVE SumKeywords(_, _, _)
SumKeywords(keywords, title, content) ==
  IF keywords = {} THEN 0
  ELSE LET keyword == CHOOSE k \in keywords : TRUE
       IN  KeywordScore(keyword, title, content)
           + SumKeywords(keywords \ {keyword}, title, content)

\* Only the keywords that are vocabulary words can match.
TopicScore(topic, title, content) ==
  SumKeywords({k \in relevantTopics[topic] : LowerCase(k) \in Vocabulary},
              title, content)

MaxOf(S) == CHOOSE m \in S : \A x \in S : x <= m

\* Mutant of FirstTopicWith: the last topic with the highest score.
FirstTopicWith_Last(topicScores, maxScore) ==
  TopicOrder[CHOOSE i \in DOMAIN TopicOrder :
               /\ topicScores[TopicOrder[i]] = maxScore
               /\ \A j \in DOMAIN TopicOrder :
                    j > i => topicScores[TopicOrder[j]] # maxScore]

\* Object.keys(topicScores).find(topic => topicScores[topic] === maxScore)
FirstTopicWith(topicScores, maxScore) ==
  TopicOrder[CHOOSE i \in DOMAIN TopicOrder :
               /\ topicScores[TopicOrder[i]] = maxScore
               /\ \A j \in DOMAIN TopicOrder :
                    j < i => topicScores[TopicOrder[j]] # maxScore]

\* Mutant of TopicalRelevanceOf: the cap at 100 left out.
TopicalRelevanceOf_NoCap(maxScore) ==
  IF maxScore > 0 THEN maxScore * 20 ELSE 0

\* Mutant of TopicalRelevanceOf: the highest score divided by 10 instead of 5.
TopicalRelevanceOf_PerTen(maxScore) ==
  IF maxScore > 0 THEN Min(maxScore * 10, 100) ELSE 0

\* maxScore > 0 ? Math.min((maxScore / 5) * 100, 100) : 0
TopicalRelevanceOf(maxScore) ==
  IF maxScore > 0 THEN Min(maxScore * 20, 100) ELSE 0

analyzeTopics(title, content) ==
  LET topicScores == [topic \in Topics |-> TopicScore(topic, title, content)]
      maxScore    == MaxOf({topicScores[topic] : topic \in Topics})
  IN  [ topicScores      |-> topicScores,
        primaryTopic     |-> FirstTopicWith(topicScores, maxScore),
        topicalRelevance |-> TopicalRelevanceOf(maxScore) ]

\* Mutant of categorizeContent: the test for a highest score of zero left out.
categorizeContent_NoOther(topicalRelevance) ==
  FirstTopicWith(topicalRelevance.topicScores,
                 MaxOf({topicalRelevance.topicScores[topic] : topic \in Topics}))

\* categorizeContent(topicalRelevance)
categorizeContent(topicalRelevance) ==
  LET maxScore == MaxOf({topicalRelevance.topicScores[topic] : topic \in Topics})
  IN  IF maxScore = 0 THEN "other"
      ELSE FirstTopicWith(topicalRelevance.topicScores, maxScore)

(***************************************************************************)
(* URLs.  ParsedHostname gives new URL(url).hostname for the URLs that      *)
(* parse; a string without a scheme makes the URL constructor throw.        *)
(* Substrings lists, for each URL and hostname, the entries of the          *)
(* analyzer's domain, channel and path lists that occur in it.              *)
(***************************************************************************)
ParsedHostname ==
  ( "https://arxiv.org/abs/1234"                :> "arxiv.org" ) @@
  ( "https://example.com/gossip"                :> "example.com" ) @@
  ( "https://www.coursera.org/learn/python"     :> "www.coursera.org" ) @@
  ( "https://www.youtube.com/watch?v=abc"       :> "www.youtube.com" ) @@
  ( "https://www.youtube.com/shorts/xyz"        :> "www.youtube.com" ) @@
  ( "https://www.reddit.com/r/programming/1"    :> "www.reddit.com" ) @@
  ( "https://twitter.com/user/status/1"         :> "twitter.com" ) @@
  ( "https://www.netflix.com/title/1"           :> "www.netflix.com" ) @@
  ( "https://web.mit.edu/research"              :> "web.mit.edu" ) @@
  ( "https://www.linkedin.com/feed/"            :> "www.linkedin.com" )

\* url.toLowerCase() for the strings the URL constructor rejects.
UrlLowerCase ==
  ( "arxiv.org/abs/1234"      :> "arxiv.org/abs/1234" ) @@
  ( "ArXiv.org/abs/1234"      :> "arxiv.org/abs/1234" ) @@
  ( "youtube.com/watch?v=abc" :> "youtube.com/watch?v=abc" ) @@
  ( "reddit.com/r/programming?ref=youtube.com"
      :> "reddit.com/r/programming?ref=youtube.com" ) @@
  ( "not a url"               :> "not a url" )

UnparseableUrls == DOMAIN UrlLowerCase

KnownUrls == DOMAIN ParsedHostname \cup UnparseableUrls

Substrings ==
  { <<"arxiv.org", "arxiv.org">>, <<"arxiv.org", ".org">>,
    <<"www.coursera.org", "coursera.org">>, <<"www.coursera.org", ".org">>,
    <<"www.youtube.com", "youtube.com">>,
    <<"www.reddit.com", "reddit.com">>,
    <<"twitter.com", "twitter.com">>,
    <<"www.netflix.com", "netflix.com">>, <<"www.netflix.com", "x.com">>,
    <<"web.mit.edu", "mit.edu">>, <<"web.mit.edu", ".edu">>,
    <<"https://web.mit.edu/research", "mit">>,
    <<"arxiv.org/abs/1234", "arxiv.org">>, <<"arxiv.org/abs/1234", ".org">>,
    <<"youtube.com/watch?v=abc", "youtube.com">>,
    <<"reddit.com/r/programming?ref=youtube.com", "reddit.com">>,
    <<"reddit.com/r/programming?ref=youtube.com", "youtube.com">>,
    <<"reddit.com/r/programming?ref=youtube.com", "/r/programming">>,
    <<"https://www.youtube.com/shorts/xyz", "shorts">>,
    <<"https://www.linkedin.com/feed/", "linkedin.com">>,
    <<"https://www.reddit.com/r/programming/1", "/r/programming">> }

\* s.includes(needle) for a URL or a domain s.
StringIncludes(s, needle) == <<s, needle>> \in Substrings

\* Mutant of extractDomain: an empty domain when the URL does not parse.
extractDomain_EmptyOnError(url) ==
  IF url \in DOMAIN ParsedHostname THEN ParsedHostname[url] ELSE ""

\* try { return new URL(url).hostname.toLowerCase() } catch { return url.toLowerCase() }
extractDomain(url) ==
  IF url \in DOMAIN ParsedHostname THEN ParsedHostname[url] ELSE UrlLowerCase[url]

(***************************************************************************)
(* analyzeSourceCredibility.                                                *)
(***************************************************************************)
\* Mutant of highCredibilityDomains: arxiv.org left out.
highCredibilityDomains_NoArxiv ==
  {"github.com", "stackoverflow.com", "medium.com", "dev.to",
   "ieee.org", "acm.org", "nature.com", "science.org", "mit.edu",
   "stanford.edu", "harvard.edu", "berkeley.edu", "google.com",
   "microsoft.com", "facebook.com", "amazon.com", "netflix.com", "uber.com",
   "airbnb.com", "stripe.com"}

highCredibilityDomains ==
  {"github.com", "stackoverflow.com", "medium.com", "dev.to", "arxiv.org",
   "ieee.org", "acm.org", "nature.com", "science.org", "mit.edu",
   "stanford.edu", "harvard.edu", "berkeley.edu", "google.com",
   "microsoft.com", "facebook.com", "amazon.com", "netflix.com", "uber.com",
   "airbnb.com", "stripe.com"}

educationalDomains ==
  {".edu", ".org", "coursera.org", "edx.org", "udemy.com", "khanacademy.org",
   "codecademy.com", "freecodecamp.org"}

\* Mutant of CredibilityScoreOf: the educational test made first.
CredibilityScoreOf_EducationalFirst(isHighCredibility, isEducational) ==
  IF isEducational THEN 80 ELSE IF isHighCredibility THEN 100 ELSE 50

\* isHighCredibility ? 100 : (isEducational ? 80 : 50)
CredibilityScoreOf(isHighCredibility, isEducational) ==
  IF isHighCredibility THEN 100 ELSE IF isEducational THEN 80 ELSE 50

analyzeSourceCredibility(url) ==
  LET domain            == extractDomain(url)
      isHighCredibility == \E d \in highCredibilityDomains : StringIncludes(domain, d)
      isEducational     == \E d \in educationalDomains : StringIncludes(domain, d)
  IN  [ domain            |-> domain,
        isHighCredibility |-> isHighCredibility,
        isEducational     |-> isEducational,
        credibilityScore  |-> CredibilityScoreOf(isHighCredibility, isEducational) ]

(***************************************************************************)
(* analyzePlatformSpecific and its handlers.                                *)
(***************************************************************************)
educationalChannels ==
  {"3blue1brown", "computerphile", "mit", "stanford", "harvard", "ted-ed",
   "veritasium", "vsauce"}

analyzeYouTubeContent(url, title, content) ==
  LET isEducationalChannel ==
        \E channel \in educationalChannels :
           TextIncludes(content, channel) \/ StringIncludes(url, channel)
      hasTranscriptIndicators ==
        \E word \in {"transcript", "captions", "subtitles"} :
           TextIncludes(content, word)
      isShortForm == TextIncludes(title, "short") \/ StringIncludes(url, "shorts")
  IN  [ isEducationalChannel    |-> isEducationalChannel,
        hasTranscriptIndicators |-> hasTranscriptIndicators,
        isShortForm             |-> isShortForm,
        platformScore |-> IF isEducationalChannel THEN 90
                          ELSE IF isShortForm THEN 20 ELSE 60 ]

learningSubreddits ==
  {"programming", "learnprogramming", "webdev", "machinelearning",
   "datascience", "technology", "science", "askscience", "explainlikeimfive",
   "todayilearned", "educationalgifs", "compsci", "math", "physics"}

\* The paths /r/<subreddit> that occur in the known URLs.
SubredditPaths == {"/r/programming"}

analyzeRedditContent(url, title, content) ==
  LET isLearningSubreddit ==
        \E path \in SubredditPaths : StringIncludes(url, path)
      hasQualityDiscussion ==
        /\ StringLength(content) > 500
        /\ Test({"explanation", "analysis", "detailed", "comprehensive"}, content)
  IN  [ isLearningSubreddit  |-> isLearningSubreddit,
        hasQualityDiscussion |-> hasQualityDiscussion,
        platformScore |-> IF isLearningSubreddit THEN 80
                          ELSE IF hasQualityDiscussion THEN 60 ELSE 30 ]

analyzeTwitterContent(url, title, content) ==
  LET hasThread    == Test({"thread"}, content)
      hasLinks     == Test(LinkWords, content)
      isShortTweet == StringLength(content) < 280
  IN  [ hasThread    |-> hasThread,
        hasLinks     |-> hasLinks,
        isShortTweet |-> isShortTweet,
        platformScore |-> IF hasThread THEN 70 ELSE IF hasLinks THEN 50 ELSE 20 ]

\* Mutant of analyzePlatformSpecific: reddit.com tested before youtube.com.
analyzePlatformSpecific_RedditFirst(url, title, content) ==
  LET domain == extractDomain(url)
  IN  IF StringIncludes(domain, "reddit.com")
        THEN analyzeRedditContent(url, title, content)
      ELSE IF StringIncludes(domain, "youtube.com")
        THEN analyzeYouTubeContent(url, title, content)
      ELSE IF StringIncludes(domain, "twitter.com") \/ StringIncludes(domain, "x.com")
        THEN analyzeTwitterContent(url, title, content)
      ELSE [platformScore |-> 50]

analyzePlatformSpecific(url, title, content) ==
  LET domain == extractDomain(url)
  IN  IF StringIncludes(domain, "youtube.com")
        THEN analyzeYouTubeContent(url, title, content)
      ELSE IF StringIncludes(domain, "reddit.com")
        THEN analyzeRedditContent(url, title, content)
      ELSE IF StringIncludes(domain, "twitter.com") \/ StringIncludes(domain, "x.com")
        THEN analyzeTwitterContent(url, title, content)
      ELSE [platformScore |-> 50]

(***************************************************************************)
(* calculateLearningScore: the weighted blend.  The weights are kept in     *)
(* hundredths (0.3, 0.4, 0.1, 0.15, 0.05) and Math.round rounds halves up.  *)
(***************************************************************************)
\* Mutant of weights: the weights of language and credibility exchanged.
weights_CredibilityTen ==
  [ contentQuality     |-> 30,
    learningIndicators |-> 40,
    languageRelevance  |-> 5,
    topicalRelevance   |-> 15,
    sourceCredibility  |-> 10 ]

weights ==
  [ contentQuality     |-> 30,
    learningIndicators |-> 40,
    languageRelevance  |-> 10,
    topicalRelevance   |-> 15,
    sourceCredibility  |-> 5 ]

\* Mutant of RoundHundredths: Math.floor in place of Math.round.
RoundHundredths_Floor(hundredths) == hundredths \div 100

\* Math.round(hundredths / 100) for hundredths >= 0
RoundHundredths(hundredths) == (hundredths + 50) \div 100

\* Mutant of calculateLearningScore: the platform score blended in, at the
\* expense of the content quality.
calculateLearningScore_WithPlatform(signals) ==
  RoundHundredths(
      signals.contentQuality.qualityScore      * (weights.contentQuality - 5)
    + signals.learningIndicators.learningScore * weights.learningIndicators
    + signals.languageRelevance.languageScore  * weights.languageRelevance
    + signals.topicalRelevance.topicalRelevance * weights.topicalRelevance
    + signals.sourceCredibility.credibilityScore * weights.sourceCredibility
    + signals.platformSpecific.platformScore   * 5)

calculateLearningScore(signals) ==
  RoundHundredths(
      signals.contentQuality.qualityScore      * weights.contentQuality
    + signals.learningIndicators.learningScore * weights.learningIndicators
    + signals.languageRelevance.languageScore  * weights.languageRelevance
    + signals.topicalRelevance.topicalRelevance * weights.topicalRelevance
    + signals.sourceCredibility.credibilityScore * weights.sourceCredibility)

(***************************************************************************)
(* analyzeContent.                                                          *)
(***************************************************************************)
\* Mutant of ShouldTrack: a score equal to the threshold is not tracked.
ShouldTrack_Strict(learningScore, minimumLearningScore) ==
  learningScore > minimumLearningScore

ShouldTrack(learningScore, minimumLearningScore) ==
  learningScore >= minimumLearningScore

\* Mutant of ReasonOf: the reason does not follow the decision.
ReasonOf_AlwaysHigh(shouldTrack) == "High learning value"

ReasonOf(shouldTrack) ==
  IF shouldTrack THEN "High learning value" ELSE "Low learning value"

BlockedResult(negativeSignals) ==
  [ shouldTrack   |-> FALSE,
    learningScore |-> 0,
    reason        |-> negativeSignals.reason,
    signals       |-> negativeSignals ]

ScoredResult(signals, minimumLearningScore) ==
  LET learningScore == calculateLearningScore(signals)
      shouldTrack   == ShouldTrack(learningScore, minimumLearningScore)
  IN  [ shouldTrack   |-> shouldTrack,
        learningScore |-> learningScore,
        signals       |-> signals,
        category      |-> categorizeContent(signals.topicalRelevance),
        reason        |-> ReasonOf(shouldTrack) ]

ExtractSignals(url, title, content) ==
  [ contentQuality     |-> analyzeContentQuality(content),
    learningIndicators |-> detectLearningSignals(title, content),
    languageRelevance  |-> analyzeLanguage(content),
    topicalRelevance   |-> analyzeTopics(title, content),
    sourceCredibility  |-> analyzeSourceCredibility(url),
    platformSpecific   |-> analyzePlatformSpecific(url, title, content) ]

\* Mutant of analyzeContent: no early return when the gate blocks.
analyzeContent_NoGate(url, title, content, minimumLearningScore) ==
  ScoredResult(ExtractSignals(url, title, content), minimumLearningScore)

analyzeContent(url, title, content, minimumLearningScore) ==
  LET negativeSignals == detectNegativeSignals(title, content, url)
  IN  IF negativeSignals.shouldBlock
        THEN BlockedResult(negativeSignals)
        ELSE ScoredResult(ExtractSignals(url, title, content), minimumLearningScore)

(***************************************************************************)
(* Inputs.  The bounds of the model and the texts and URLs built from them. *)
(***************************************************************************)
\* The longest run of one keyword in a content.
MaxKeywordRun == 5

\* The longest run of one negative-pattern word in a content.
MaxNegativeRun == 4

\* The length of the run of foreign-script words in a content that has one.
ForeignRun == 30

\* The largest number of filler words in a content.
MaxBodyWords == 2300

Urls ==
  { "https://arxiv.org/abs/1234", "https://example.com/gossip",
    "https://www.coursera.org/learn/python",
    "https://www.youtube.com/watch?v=abc",
    "https://www.youtube.com/shorts/xyz" }

TitleWords == {"the", "algorithm", "research", "innovation", "politics"}

Titles == {<<>>} \cup {<<Run(w, 1)>> : w \in TitleWords}

\* Contents around the gate: of minimumWordCount words or one fewer, with or
\* without a blocked keyword, negative-pattern words and foreign script.
GateContents ==
  { Text(<<Run("the", words - blocked - negative - foreign),
           Run("transports", blocked), Run("viral", negative),
           Run("te_vidya", foreign)>>) :
      words \in {minimumWordCount - 1, minimumWordCount},
      blocked \in {0, 1},
      negative \in {0} \cup ((MaxNegativeRun - 1) .. MaxNegativeRun),
      foreign \in {0, ForeignRun} }

\* Contents with keywords of several topics.
TopicContents ==
  { Text(<<Run("the", minimumWordCount), Run("algorithm", a), Run("research", r),
           Run("innovation", i)>>) :
      a \in {0, 1, 2, MaxKeywordRun}, r \in {0, 1, MaxKeywordRun - 1},
      i \in {0, 1} }

QualityPassages ==
  { <<>>, <<Run("fence", 1)>>, <<Run("li", 1), Run("source", 1)>>,
    <<Run("fence", 1), Run("li", 1), Run("source", 1), Run("link", 1)>> }

LearningPassages ==
  { <<>>, <<Run("tutorial", 1)>>,
    <<Run("tutorial", MaxKeywordRun), Run("step", 1), Run("build", 1)>>,
    <<Run("why", 1), Run("qmark", 1), Run("api", MaxKeywordRun + 2)>>,
    <<Run("tutorial", MaxKeywordRun), Run("step", 1), Run("build", 1),
      Run("why", 1), Run("qmark", 1), Run("api", MaxKeywordRun + 2)>> }

\* Contents of several lengths, with and without the structural and the
\* learning indicators.
ScoreContents ==
  { <<Run("the", body)>> \o q \o l :
      body \in {minimumWordCount, 500, 1000, MaxBodyWords},
      q \in QualityPassages, l \in LearningPassages }

Contents == {<<>>} \cup GateContents \cup TopicContents \cup ScoreContents

(***************************************************************************)
(* The analyzer, followed through two calls of analyzeContent on the same   *)
(* page content.  userPreferences.minimumLearningScore is an instance field *)
(* the host can assign between calls.                                       *)
(***************************************************************************)
VARIABLES
  minimumLearningScore,  \* this.userPreferences.minimumLearningScore
  input,                 \* the arguments of the current call
  negativeSignals,       \* the gate's record in the current call
  result,                \* the AnalysisResult of the current call, once returned
  prev,                  \* the previous call: arguments, threshold and result
  pc,                    \* "ready": about to call; "returned": analyzeContent
                         \* returned; "quality", "language", "platform": that
                         \* extractor returned
  tracker,               \* the ReadingTracker of the page (content script)
  background             \* the background service worker, chrome.storage.local
                         \* and the reading_sessions table of the API

vars == <<minimumLearningScore, input, negativeSignals, result, prev, pc,
          tracker, background>>

\* No content script and no background worker: the analyzer on its own.
NoTracker == [absent |-> TRUE]

NoBackground == [absent |-> TRUE]

NoResult == [pending |-> TRUE]

NoCall == [none |-> TRUE]

Init ==
  /\ minimumLearningScore = DefaultMinimumLearningScore
  /\ input \in [url : Urls, title : Titles, content : Contents]
  /\ negativeSignals = NoResult
  /\ result = NoResult
  /\ prev = NoCall
  /\ pc = "ready"
  /\ tracker = NoTracker
  /\ background = NoBackground

\* Mutant of AnalyzeContent: a call that tracks raises the threshold above the
\* score it returned.
AnalyzeContent_RaisesThreshold ==
  /\ pc = "ready"
  /\ negativeSignals' = detectNegativeSignals(input.title, input.content, input.url)
  /\ result' = analyzeContent(input.url, input.title, input.content,
                              minimumLearningScore)
  /\ pc' = "returned"
  /\ minimumLearningScore' =
       IF result'.shouldTrack THEN result'.learningScore + 1
       ELSE minimumLearningScore
  /\ UNCHANGED <<input, prev, tracker, background>>

\* const result = await analyzer.analyzeContent(url, title, content)
AnalyzeContent ==
  /\ pc = "ready"
  /\ negativeSignals' = detectNegativeSignals(input.title, input.content, input.url)
  /\ result' = analyzeContent(input.url, input.title, input.content,
                              minimumLearningScore)
  /\ pc' = "returned"
  /\ UNCHANGED <<minimumLearningScore, input, prev, tracker, background>>

\* The thresholds the host sets before the second call: the default, the score
\* the first call returned and the next integer.
ThresholdChoices ==
  IF prev # NoCall
    THEN {DefaultMinimumLearningScore}
           \cup {v \in {prev.result.learningScore, prev.result.learningScore + 1} :
                   v >= 0 /\ v <= 100}
    ELSE {}

\* analyzer.userPreferences.minimumLearningScore = v, before the second call
SetMinimumLearningScore(v) ==
  /\ pc = "ready"
  /\ v # minimumLearningScore
  /\ minimumLearningScore' = v
  /\ UNCHANGED <<input, negativeSignals, result, prev, pc, tracker, background>>

\* A second call on the same content, with the same or another url or title.
CallAgain(url, title) ==
  /\ pc = "returned"
  /\ prev = NoCall
  /\ url = input.url \/ title = input.title
  /\ prev' = [ input |-> input, minimumLearningScore |-> minimumLearningScore,
               result |-> result ]
  /\ input' = [input EXCEPT !.url = url, !.title = title]
  /\ negativeSignals' = NoResult
  /\ result' = NoResult
  /\ pc' = "ready"
  /\ UNCHANGED <<minimumLearningScore, tracker, background>>

Next ==
  \/ AnalyzeContent
  \/ \E v \in ThresholdChoices : SetMinimumLearningScore(v)
  \/ \E url \in Urls, title \in Titles : CallAgain(url, title)

Spec == Init /\ [][Next]_vars

(***************************************************************************)
(* The signal extractors one by one.  A second specification takes one      *)
(* input and calls analyzeContent, analyzeContentQuality or analyzeLanguage *)
(* on it; its inputs cover the thresholds of each extractor: every          *)
(* combination of learning indicators, the word counts around the tiers of  *)
(* calculateQualityScore, the character percentages at and next to 70 and   *)
(* 5, and URLs of every kind of domain.                                     *)
(***************************************************************************)
SignalTitles == {<<>>, <<Run("tutorial", 1)>>}

\* Every combination of learning-keyword matches, technical terms, question
\* format, step words and action words, in MinimumWordCount words of filler.
LearningContents ==
  { Text(<<Run("the", minimumWordCount), Run("tutorial", keywords),
           Run("api", technical), Run("step", stepByStep),
           Run("build", actionable), Run("why", qa), Run("qmark", qa)>>) :
      keywords \in 0 .. (MaxKeywordRun + 1),
      technical \in 0 .. (MaxKeywordRun + 3),
      stepByStep \in {0, 1}, actionable \in {0, 1}, qa \in {0, 1} }

\* Word counts at and next to the tiers of calculateQualityScore: 300, 500 and
\* 1000 words, and 3, 5 and 10 minutes of 250 words.
QualityWordCounts ==
  { 0, 1, 250, 251, minimumWordCount - 1, minimumWordCount, 499, 500, 501, 750,
    751, 999, 1000, 1001, 1250, 1251, 2250, 2251, MaxBodyWords }

\* Contents of these word counts with every combination of a code fence, a
\* list item, a reference word and a hyperlink.
QualityContents ==
  { Text(<<Run("the", words - code - structure - references - links),
           Run("fence", code), Run("li", structure),
           Run("source", references), Run("link", links)>>) :
      words \in {w \in QualityWordCounts : w >= 4},
      code \in {0, 1}, structure \in {0, 1}, references \in {0, 1},
      links \in {0, 1} }
    \cup { Text(<<Run("the", words)>>) : words \in {w \in QualityWordCounts : w < 4} }

\* Contents whose [a-zA-Z] characters are exactly 70% of the string (42 of 60,
\* 987 of 1410) or just above, and whose Telugu characters are exactly 5% of
\* the string (5 of 100, 80 of 1600) or just below.
LanguageContents ==
  { <<Run("the", 14), Run("year", 1)>>,   <<Run("the", 15), Run("year", 1)>>,
    <<Run("the", 329), Run("year", 19)>>, <<Run("the", 330), Run("year", 19)>>,
    <<Run("step", 19), Run("te_vidya", 1)>>,
    <<Run("step", 20), Run("te_vidya", 1)>>,
    <<Run("step", 301), Run("te_vidya", 16)>>,
    <<Run("step", 302), Run("te_vidya", 16)>>,
    <<Run("te_vidya", minimumWordCount)>>, <<Run("year", minimumWordCount)>>,
    <<Run("the", minimumWordCount)>>, <<>> }

SignalContents == LearningContents \cup QualityContents \cup LanguageContents

\* Every content on one URL, and every URL with a plain content.
SignalInputs ==
  [url : {"https://example.com/gossip"}, title : SignalTitles, content : SignalContents]
    \cup [url : KnownUrls, title : SignalTitles,
          content : {<<Run("the", minimumWordCount)>>}]

\* Posts of 279 and of 280 characters, a shorter and a longer one, with and
\* without the word 'thread' and a link.
PostContents ==
  { Text(body \o <<Run("thread", thread), Run("link", links)>>) :
      body \in { <<Run("the", 10)>>, <<Run("the", 70)>>,
                 <<Run("the", 69), Run("step", 1)>>,
                 <<Run("the", minimumWordCount)>> },
      thread \in {0, 1}, links \in {0, 1} }

PostInputs ==
  [ url : {"https://twitter.com/user/status/1"}, title : {<<>>},
    content : PostContents ]

\* The title 'A tutorial on transformer architecture'.
TutorialTitle ==
  <<Run("a", 1), Run("tutorial", 1), Run("on", 1), Run("transformer", 1),
    Run("architecture", 1)>>

\* The number of words of the contents on the arxiv.org tutorial.
TutorialWords == 800

\* Contents of TutorialWords words of English prose with a pair of code
\* fences and 'implementation' and 'algorithm' repeated, with or without a
\* list item and a reference word.
TutorialContents ==
  { Text(<<Run("the", TutorialWords - 2 - implementation - algorithm
                        - structure - references),
           Run("fence", 2), Run("implementation", implementation),
           Run("algorithm", algorithm), Run("li", structure),
           Run("source", references)>>) :
      implementation \in 2 .. MaxKeywordRun, algorithm \in 2 .. MaxKeywordRun,
      structure \in {0, 1}, references \in {0, 1} }

TutorialInputs ==
  [ url : {"https://arxiv.org/abs/1234"}, title : {TutorialTitle},
    content : TutorialContents ]

SignalInit ==
  /\ minimumLearningScore = DefaultMinimumLearningScore
  /\ input \in SignalInputs \cup TutorialInputs \cup PostInputs
  /\ negativeSignals = NoResult
  /\ result = NoResult
  /\ prev = NoCall
  /\ pc = "ready"
  /\ tracker = NoTracker
  /\ background = NoBackground

\* analyzer.analyzeContentQuality(content)
AnalyzeContentQuality ==
  /\ pc = "ready"
  /\ result' = analyzeContentQuality(input.content)
  /\ pc' = "quality"
  /\ UNCHANGED <<minimumLearningScore, input, negativeSignals, prev, tracker, background>>

\* analyzer.analyzeLanguage(content)
AnalyzeLanguage ==
  /\ pc = "ready"
  /\ result' = analyzeLanguage(input.content)
  /\ pc' = "language"
  /\ UNCHANGED <<minimumLearningScore, input, negativeSignals, prev, tracker, background>>

\* analyzer.analyzePlatformSpecific(url, title, content)
AnalyzePlatformSpecific ==
  /\ pc = "ready"
  /\ result' = analyzePlatformSpecific(input.url, input.title, input.content)
  /\ pc' = "platform"
  /\ UNCHANGED <<minimumLearningScore, input, negativeSignals, prev, tracker, background>>

SignalNext ==
  \/ AnalyzeContent
  \/ AnalyzeContentQuality
  \/ AnalyzeLanguage
  \/ AnalyzePlatformSpecific

SignalSpec == SignalInit /\ [][SignalNext]_vars

(***************************************************************************)
(* One analyzer called again and again.  A third specification keeps the    *)
(* first call in prev, with the inputs of the calls made after it, and lets *)
(* every call take any input.  The host does not touch userPreferences.     *)
(***************************************************************************)
\* The largest number of calls between the first call and the last one.
MaxCallsBetween == 2

RepeatContents ==
  { <<>>,
    <<Run("the", minimumWordCount - 1), Run("transports", 1)>>,
    <<Run("the", minimumWordCount)>>,
    <<Run("the", 1000), Run("fence", 1), Run("li", 1), Run("source", 1),
      Run("tutorial", MaxKeywordRun), Run("step", 1), Run("build", 1),
      Run("why", 1), Run("qmark", 1), Run("api", MaxKeywordRun + 2)>> }

RepeatInputs ==
  [ url : {"https://arxiv.org/abs/1234", "https://example.com/gossip"},
    title : {<<>>}, content : RepeatContents ]

RepeatInit ==
  /\ minimumLearningScore = DefaultMinimumLearningScore
  /\ input \in RepeatInputs
  /\ negativeSignals = NoResult
  /\ result = NoResult
  /\ prev = NoCall
  /\ pc = "ready"
  /\ tracker = NoTracker
  /\ background = NoBackground

\* The next call on the same analyzer, on any input.  prev keeps the first
\* call and the inputs of the calls that returned after it.
CallNext(next) ==
  /\ pc = "returned"
  /\ prev # NoCall => Len(prev.between) < MaxCallsBetween
  /\ prev' = IF prev = NoCall
               THEN [ input |-> input,
                      minimumLearningScore |-> minimumLearningScore,
                      result |-> result, between |-> <<>> ]
               ELSE [prev EXCEPT !.between = Append(@, input)]
  /\ input' = next
  /\ negativeSignals' = NoResult
  /\ result' = NoResult
  /\ pc' = "ready"
  /\ UNCHANGED <<minimumLearningScore, tracker, background>>

RepeatNext ==
  \/ AnalyzeContent
  \/ \E next \in RepeatInputs : CallNext(next)

RepeatSpec == RepeatInit /\ [][RepeatNext]_vars

(***************************************************************************)
(* Properties.                                                              *)
(***************************************************************************)
Returned == pc = "returned"

\* The call ran the full blend (it was not stopped by the gate).
Scored == Returned /\ ~negativeSignals.shouldBlock

\* The call was stopped by the gate.
Gated == Returned /\ negativeSignals.shouldBlock

\* C1: the gate's reason is the first true condition in the order blocked
\* keyword, negative-pattern density, too short, wrong language; content with a
\* blocked keyword that is also too short is reported as blocked keywords.
C1_GatePrecedence ==
  Returned =>
    LET g == negativeSignals IN
      /\ g.hasBlockedKeywords => g.reason = "Contains blocked keywords"
      /\ ~g.hasBlockedKeywords /\ g.negativeScore > 3
           => g.reason = "Too many negative signals"
      /\ ~g.hasBlockedKeywords /\ ~(g.negativeScore > 3) /\ g.isTooShort
           => g.reason = "Content too short"
      /\ ~g.hasBlockedKeywords /\ ~(g.negativeScore > 3) /\ ~g.isTooShort
           /\ g.isWrongLanguage
           => g.reason = "Non-English content"

\* A call whose content has a blocked keyword, too many negative matches, too
\* few words and the wrong language at once.
C1_Witness ==
  /\ Returned
  /\ negativeSignals.hasBlockedKeywords
  /\ negativeSignals.negativeScore > 3
  /\ negativeSignals.isTooShort
  /\ negativeSignals.isWrongLanguage
  /\ negativeSignals.reason = "Contains blocked keywords"

\* The fields of a blocked result.
BlockedFields == {"shouldTrack", "learningScore", "reason", "signals"}

\* The score the blend gives the current input.
BlendOfInput ==
  calculateLearningScore(ExtractSignals(input.url, input.title, input.content))

\* C2: whenever the gate blocks, the result is shouldTrack = false,
\* learningScore = 0, the gate's reason and the gate record as the only
\* signals, whatever the blend would have scored; content with a blocked
\* keyword or in the wrong language never has a nonzero score.
C2_BlockedScoresZero ==
  Returned =>
    /\ negativeSignals.shouldBlock =>
         /\ result.shouldTrack = FALSE
         /\ result.learningScore = 0
         /\ result.reason = negativeSignals.reason
         /\ result.signals = negativeSignals
         /\ DOMAIN result = BlockedFields
    /\ negativeSignals.hasBlockedKeywords \/ negativeSignals.isWrongLanguage
         => result.learningScore = 0

\* A blocked call on an input the blend would have scored above the threshold.
C2_Witness ==
  /\ Gated
  /\ negativeSignals.hasBlockedKeywords
  /\ BlendOfInput >= minimumLearningScore
  /\ result.learningScore = 0

\* The vocabulary words that contain a blocked keyword.
WordsWithBlockedKeyword == {"politics", "transports"}

\* C3: shouldBlock is true exactly when a blocked keyword occurs in title +
\* content, or the negative-pattern count is above 3, or the content has fewer
\* than 300 words, or the content is not in the target language; and exactly
\* when the reason is not empty.
C3_GateIsDisjunction ==
  Returned =>
    LET g == negativeSignals
        blockedOccurs ==
          (WordsOf(input.title) \cup WordsOf(input.content))
             \cap WordsWithBlockedKeyword # {}
        tooShort == countWords(input.content) < 300
        wrongLanguage == analyzeLanguage(input.content).languageScore = 0
    IN  /\ g.shouldBlock <=>
             (blockedOccurs \/ g.negativeScore > 3 \/ tooShort \/ wrongLanguage)
        /\ g.shouldBlock <=> g.reason # ""

\* A call on a content of exactly 300 words with exactly 3 negative matches and
\* no other condition: the gate lets it through.
C3_Witness ==
  /\ Returned
  /\ countWords(input.content) = 300
  /\ negativeSignals.negativeScore = 3
  /\ ~negativeSignals.hasBlockedKeywords
  /\ ~negativeSignals.isWrongLanguage
  /\ ~negativeSignals.shouldBlock

\* C4: 0 <= learningScore <= 100 for every result, and every sub-score of a
\* scored result is in its range: quality, learning-indicator, topical and
\* platform scores in 0..100, language score 0 or 100, credibility 50, 80 or 100.
C4_ScoreBounds ==
  Returned =>
    /\ result.learningScore \in 0 .. 100
    /\ Scored =>
         /\ result.signals.contentQuality.qualityScore \in 0 .. 100
         /\ result.signals.learningIndicators.learningScore \in 0 .. 100
         /\ result.signals.topicalRelevance.topicalRelevance \in 0 .. 100
         /\ result.signals.platformSpecific.platformScore \in 0 .. 100
         /\ result.signals.languageRelevance.languageScore \in {0, 100}
         /\ result.signals.sourceCredibility.credibilityScore \in {50, 80, 100}

\* A scored call whose topic score is above 5 and whose learning-indicator and
\* topical scores are both at the upper bound.
C4_Witness ==
  /\ Scored
  /\ result.signals.learningIndicators.learningScore = 100
  /\ result.signals.topicalRelevance.topicalRelevance = 100
  /\ \E topic \in Topics : result.signals.topicalRelevance.topicScores[topic] > 5

\* The weighted sum of the five sub-scores of a result, in hundredths.
BlendHundredths(r) ==
    30 * r.signals.contentQuality.qualityScore
  + 40 * r.signals.learningIndicators.learningScore
  + 10 * r.signals.languageRelevance.languageScore
  + 15 * r.signals.topicalRelevance.topicalRelevance
  +  5 * r.signals.sourceCredibility.credibilityScore

\* C5: the learningScore of a scored result is the weighted sum 0.30 quality +
\* 0.40 learning + 0.10 language + 0.15 topical + 0.05 credibility, rounded to
\* the nearest integer with halves rounded up; the weights sum to 1.00.
C5_WeightedBlend ==
  /\ Scored =>
       /\ 100 * result.learningScore <= BlendHundredths(result) + 50
       /\ BlendHundredths(result) + 50 < 100 * result.learningScore + 100
  /\ weights.contentQuality + weights.learningIndicators
       + weights.languageRelevance + weights.topicalRelevance
       + weights.sourceCredibility = 100

\* A scored call whose weighted sum is an exact half, rounded up.
C5_Witness ==
  /\ Scored
  /\ BlendHundredths(result) % 100 = 50
  /\ 100 * result.learningScore = BlendHundredths(result) + 50

\* C6: a scored result is tracked exactly when its learningScore is at least
\* the configured minimum, and its reason is "High learning value" exactly
\* when it is tracked and "Low learning value" otherwise.
C6_ThresholdDecision ==
  Scored =>
    /\ result.shouldTrack <=> result.learningScore >= minimumLearningScore
    /\ result.shouldTrack => result.reason = "High learning value"
    /\ ~result.shouldTrack => result.reason = "Low learning value"

\* A call under the default threshold that scored exactly 50 and is tracked.
C6_Witness ==
  /\ Scored
  /\ minimumLearningScore = 50
  /\ result.learningScore = 50
  /\ result.shouldTrack
  /\ result.reason = "High learning value"

\* The current call and the previous one as records, and whether a result is
\* one of the full blend.
Current == [input |-> input, minimumLearningScore |-> minimumLearningScore,
            result |-> result]

IsScored(r) == "category" \in DOMAIN r

TwoCalls == Returned /\ prev # NoCall

\* The threshold was raised above the score of a tracked result and the same
\* input analysed again.
ThresholdRaised ==
  /\ TwoCalls
  /\ input = prev.input
  /\ prev.result.shouldTrack
  /\ minimumLearningScore > prev.result.learningScore

\* C7 as stated: after the threshold is raised above the learningScore of a
\* tracked result, the same input gives shouldTrack = false and every other
\* field of the result is unchanged; and two results whose learningScore is at
\* or above the threshold both have shouldTrack = true.
C7_Original ==
  /\ ThresholdRaised =>
       /\ result.shouldTrack = FALSE
       /\ [result EXCEPT !.shouldTrack = TRUE] = prev.result
  /\ TwoCalls /\ prev.result.learningScore >= prev.minimumLearningScore
       /\ result.learningScore >= minimumLearningScore
       => prev.result.shouldTrack /\ result.shouldTrack

\* C7 (amended): after the threshold is raised above the learningScore of a
\* tracked result, the same input gives shouldTrack = false and the reason
\* "Low learning value" in place of "High learning value"; learningScore,
\* signals and category are unchanged.  Two results of the full blend whose
\* learningScore is at or above the threshold both have shouldTrack = true.
C7_ThresholdRaise ==
  /\ ThresholdRaised =>
       /\ result.shouldTrack = FALSE
       /\ prev.result.reason = "High learning value"
       /\ result.reason = "Low learning value"
       /\ [result EXCEPT !.shouldTrack = TRUE, !.reason = "High learning value"]
            = prev.result
  /\ TwoCalls /\ IsScored(prev.result) /\ IsScored(result)
       /\ prev.result.learningScore >= prev.minimumLearningScore
       /\ result.learningScore >= minimumLearningScore
       => prev.result.shouldTrack /\ result.shouldTrack

\* The same input analysed again with the threshold one above its score, after
\* a first call that tracked it.
C7_Witness ==
  /\ ThresholdRaised
  /\ minimumLearningScore = prev.result.learningScore + 1
  /\ result.learningScore = prev.result.learningScore
  /\ ~result.shouldTrack

\* The number of times a keyword occurs as a word of a text.
Occurrences(keyword, text) == MatchCount({LowerCase(keyword)}, text)

RECURSIVE TitleDoubleSum(_, _, _)
\* Sum over the keywords of 2 per occurrence in the title and 1 per occurrence
\* in the content.
TitleDoubleSum(keywords, title, content) ==
  IF keywords = {} THEN 0
  ELSE LET keyword == CHOOSE k \in keywords : TRUE
       IN  2 * Occurrences(keyword, title) + Occurrences(keyword, content)
           + TitleDoubleSum(keywords \ {keyword}, title, content)

\* C8: the score of a topic is the sum over its keywords of 2 for each match in
\* the title and 1 for each match in the content.
C8_TitleDoubleContentSingle ==
  Scored =>
    \A topic \in Topics :
       result.signals.topicalRelevance.topicScores[topic]
         = TitleDoubleSum({k \in relevantTopics[topic] : LowerCase(k) \in Vocabulary},
                          input.title, input.content)

\* Titles without any topic keyword.
NeutralTitles == {<<>>, <<Run("the", 1)>>}

AllKeywords == UNION {relevantTopics[topic] : topic \in Topics}

\* Calls a and b have the same url and content, both ran the full blend, a's
\* title is the keyword, b's title has no keyword, the content has the keyword
\* and the keyword belongs to the primary topic of b.
TitleVersusBody(a, b, keyword) ==
  /\ a.input.url = b.input.url
  /\ a.input.content = b.input.content
  /\ a.input.title = <<Run(keyword, 1)>>
  /\ b.input.title \in NeutralTitles
  /\ Occurrences(keyword, b.input.content) >= 1
  /\ IsScored(a.result) /\ IsScored(b.result)
  /\ keyword \in relevantTopics[b.result.signals.topicalRelevance.primaryTopic]

Relevance(call) == call.result.signals.topicalRelevance.topicalRelevance

\* C9 as stated: the input with the keyword in the title has a strictly higher
\* topicalRelevance than the input with the keyword only in the body.
C9_Original ==
  TwoCalls =>
    \A keyword \in AllKeywords :
       /\ TitleVersusBody(prev, Current, keyword) => Relevance(prev) > Relevance(Current)
       /\ TitleVersusBody(Current, prev, keyword) => Relevance(Current) > Relevance(prev)

\* C9 (amended): the input with the keyword in the title has a topicalRelevance
\* at least as high as the input with the keyword only in the body, and a
\* strictly higher one whenever the body-only input is below the cap of 100.
C9_TitleAtLeastBody ==
  TwoCalls =>
    \A keyword \in AllKeywords :
       /\ TitleVersusBody(prev, Current, keyword) =>
            /\ Relevance(prev) >= Relevance(Current)
            /\ Relevance(Current) < 100 => Relevance(prev) > Relevance(Current)
       /\ TitleVersusBody(Current, prev, keyword) =>
            /\ Relevance(Current) >= Relevance(prev)
            /\ Relevance(prev) < 100 => Relevance(Current) > Relevance(prev)

\* A pair of calls that differ in the title only, where the body-only input is
\* below the cap and the title input is strictly above it.
C9_Witness ==
  /\ TwoCalls
  /\ \E keyword \in AllKeywords :
        /\ TitleVersusBody(Current, prev, keyword)
        /\ Relevance(prev) < 100
        /\ Relevance(Current) > Relevance(prev)

\* C10: primaryTopic has the highest topic score, and every topic before it in
\* the order technology, science, education, business, future has a strictly
\* lower score.
C10_PrimaryTopic ==
  Scored =>
    LET order   == <<"technology", "science", "education", "business", "future">>
        scores  == result.signals.topicalRelevance.topicScores
        primary == result.signals.topicalRelevance.primaryTopic
    IN  \E i \in 1 .. 5 :
           /\ order[i] = primary
           /\ \A j \in 1 .. 5 :
                /\ scores[order[j]] <= scores[primary]
                /\ j < i => scores[order[j]] < scores[primary]

\* A scored call in which science and business tie for the highest score,
\* above zero.
C10_Witness ==
  /\ Scored
  /\ LET scores == result.signals.topicalRelevance.topicScores
     IN  /\ scores["science"] > 0
         /\ scores["science"] = scores["business"]
         /\ \A topic \in Topics : scores[topic] <= scores["science"]
         /\ result.signals.topicalRelevance.primaryTopic = "science"

\* The highest of the five topic scores of a scored result.
MaxTopicScore(r) ==
  MaxOf({r.signals.topicalRelevance.topicScores[topic] : topic \in Topics})

\* C11: for every input that passes the gate, the category is the topical
\* signal's primaryTopic when at least one topic scored above zero, and 'other'
\* when no topic scored above zero.
C11_Category ==
  Scored =>
    result.category =
      IF \E topic \in Topics : result.signals.topicalRelevance.topicScores[topic] > 0
        THEN result.signals.topicalRelevance.primaryTopic
        ELSE "other"

\* A scored call in which no topic scored above zero: the category is 'other'
\* while primaryTopic is the first topic.
C11_Witness ==
  /\ Scored
  /\ \A topic \in Topics : result.signals.topicalRelevance.topicScores[topic] = 0
  /\ result.signals.topicalRelevance.primaryTopic = "technology"
  /\ result.category = "other"

\* C12: topicalRelevance is min(100, (maxTopicScore / 5) * 100), written in
\* integers as 5 * topicalRelevance = min(500, 100 * maxTopicScore); it is 0
\* when all topics score 0 and 100 when the highest score is 5 or more.
C12_TopicalRelevance ==
  Scored =>
    LET relevance == result.signals.topicalRelevance.topicalRelevance
        maxScore  == MaxTopicScore(result)
    IN  /\ 5 * relevance = (IF 100 * maxScore < 500 THEN 100 * maxScore ELSE 500)
        /\ maxScore = 0 => relevance = 0
        /\ maxScore >= 5 => relevance = 100

\* A scored call whose highest topic score is above 5 and whose
\* topicalRelevance is 100.
C12_Witness ==
  /\ Scored
  /\ MaxTopicScore(result) > 5
  /\ result.signals.topicalRelevance.topicalRelevance = 100

\* A scored call whose highest topic score is 4, below the cap.
C12_WitnessBelowCap ==
  /\ Scored
  /\ MaxTopicScore(result) = 4
  /\ result.signals.topicalRelevance.topicalRelevance = 80

\* C13: the learning-indicator score is min(100, min(8 * keywordMatches, 40)
\* + 15 if question format + 10 if step-by-step + min(3 * technicalTermCount,
\* 20) + 15 if actionable verbs), for every combination of counts and flags.
C13_LearningIndicatorScore ==
  Scored =>
    LET l         == result.signals.learningIndicators
        keywords  == IF 8 * l.learningKeywordCount < 40
                       THEN 8 * l.learningKeywordCount ELSE 40
        technical == IF 3 * l.hasTechnicalTerms < 20
                       THEN 3 * l.hasTechnicalTerms ELSE 20
        sum       == keywords
                     + (IF l.hasQuestionAnswerFormat THEN 15 ELSE 0)
                     + (IF l.hasStepByStep THEN 10 ELSE 0)
                     + technical
                     + (IF l.hasActionableContent THEN 15 ELSE 0)
    IN  l.learningScore = IF sum < 100 THEN sum ELSE 100

\* A scored call with more than five keyword matches and more than six
\* technical terms, so that both caps bind, with question format and actionable
\* verbs and no step word: 40 + 15 + 20 + 15.
C13_Witness ==
  /\ Scored
  /\ LET l == result.signals.learningIndicators
     IN  /\ l.learningKeywordCount > 5
         /\ l.hasTechnicalTerms > 6
         /\ l.hasQuestionAnswerFormat
         /\ ~l.hasStepByStep
         /\ l.hasActionableContent
         /\ l.learningScore = 90

QualityReturned == pc = "quality"

\* C14: the quality score is the word tier (30 from 1000 words, 20 from 500,
\* 10 from 300, else 0) plus the reading-time tier on ceil(w / 250) minutes (20
\* from 10, 15 from 5, 10 from 3, else 0) plus 15 for code examples, 10 for
\* structure and 15 for references, capped at 100; hyperlinks do not enter it.
C14_QualityScore ==
  QualityReturned =>
    LET w       == result.wordCount
        minutes == CHOOSE m \in 0 .. w : 250 * (m - 1) < w /\ w <= 250 * m
        words   == IF w >= 1000 THEN 30 ELSE IF w >= 500 THEN 20
                   ELSE IF w >= 300 THEN 10 ELSE 0
        reading == IF minutes >= 10 THEN 20 ELSE IF minutes >= 5 THEN 15
                   ELSE IF minutes >= 3 THEN 10 ELSE 0
        sum     == words + reading
                   + (IF result.hasCodeExamples THEN 15 ELSE 0)
                   + (IF result.hasStructure THEN 10 ELSE 0)
                   + (IF result.hasReferences THEN 15 ELSE 0)
    IN  /\ w = countWords(input.content)
        /\ result.readingTime = minutes
        /\ result.qualityScore = IF sum < 100 THEN sum ELSE 100

\* analyzeContentQuality returned for a content of 1000 words with a hyperlink
\* and a reference word and nothing else: 30 + 10 + 15.
C14_Witness ==
  /\ QualityReturned
  /\ result.wordCount = 1000
  /\ result.hasLinks
  /\ result.hasReferences
  /\ ~result.hasCodeExamples
  /\ ~result.hasStructure
  /\ result.qualityScore = 55

\* analyzeContentQuality returned for a content of 2251 words, the first
\* count of ten minutes.
C14_WitnessTenMinutes ==
  /\ QualityReturned
  /\ result.wordCount = 2251
  /\ result.readingTime = 10

LanguageReturned == pc = "language"

\* The numbers of [a-zA-Z] characters, of Telugu characters and of all
\* characters of the content of the call.
LettersOfInput == Total(input.content, [w \in Vocabulary |-> WordInfo[w].letters])

TeluguOfInput == Total(input.content, [w \in Vocabulary |-> WordInfo[w].telugu])

LengthOfInput == StringLength(input.content)

\* C15: the content is the target language exactly when more than 70% of its
\* characters are in [a-zA-Z] and fewer than 5% are Telugu (exactly 70% or
\* exactly 5% is not the target language); languageScore is 100 when it is
\* and 0 when it is not.
C15_TargetLanguage ==
  LanguageReturned =>
    /\ result.isEnglishContent <=>
          /\ 100 * LettersOfInput > 70 * LengthOfInput
          /\ 100 * TeluguOfInput < 5 * LengthOfInput
    /\ result.languageScore = IF result.isEnglishContent THEN 100 ELSE 0

\* analyzeLanguage returned for a content with exactly 70% of [a-zA-Z]
\* characters and no Telugu: it is not the target language.
C15_Witness ==
  /\ LanguageReturned
  /\ LengthOfInput > 0
  /\ 100 * LettersOfInput = 70 * LengthOfInput
  /\ TeluguOfInput = 0
  /\ ~result.isEnglishContent
  /\ result.languageScore = 0

\* analyzeLanguage returned for a content with exactly 5% of Telugu characters
\* and more than 70% of [a-zA-Z] characters: it is not the target language.
C15_WitnessFivePercent ==
  /\ LanguageReturned
  /\ LengthOfInput > 0
  /\ 100 * TeluguOfInput = 5 * LengthOfInput
  /\ 100 * LettersOfInput > 70 * LengthOfInput
  /\ ~result.isEnglishContent
  /\ result.languageScore = 0

\* C16: credibilityScore is 100 when the domain is high-credibility, otherwise
\* 80 when it is educational, otherwise 50; arxiv.org and an mit.edu host are
\* both high-credibility and educational and score 100.
C16_CredibilityScore ==
  Scored =>
    LET c == result.signals.sourceCredibility
    IN  /\ c.isHighCredibility => c.credibilityScore = 100
        /\ ~c.isHighCredibility /\ c.isEducational => c.credibilityScore = 80
        /\ ~c.isHighCredibility /\ ~c.isEducational => c.credibilityScore = 50
        /\ input.url \in {"https://arxiv.org/abs/1234", "https://web.mit.edu/research"} =>
              /\ c.isHighCredibility
              /\ c.isEducational
              /\ c.credibilityScore = 100

\* A scored call on the mit.edu URL: high-credibility and educational, 100.
C16_Witness ==
  /\ Scored
  /\ input.url = "https://web.mit.edu/research"
  /\ result.signals.sourceCredibility.isHighCredibility
  /\ result.signals.sourceCredibility.isEducational
  /\ result.signals.sourceCredibility.credibilityScore = 100

\* A scored call on a domain that is educational only: 80.
C16_WitnessEducational ==
  /\ Scored
  /\ ~result.signals.sourceCredibility.isHighCredibility
  /\ result.signals.sourceCredibility.isEducational
  /\ result.signals.sourceCredibility.credibilityScore = 80

Credibility(call) == call.result.signals.sourceCredibility.credibilityScore

\* Calls a and b analysed the same title and content, both passed the gate, a
\* on a high-credibility domain and b on a domain that is on no list.
HighVersusUnknown(a, b) ==
  /\ a.input.title = b.input.title
  /\ a.input.content = b.input.content
  /\ IsScored(a.result) /\ IsScored(b.result)
  /\ a.result.signals.sourceCredibility.isHighCredibility
  /\ Credibility(a) = 100
  /\ ~b.result.signals.sourceCredibility.isHighCredibility
  /\ ~b.result.signals.sourceCredibility.isEducational
  /\ Credibility(b) = 50

\* C17: of two inputs with the same title and content that both pass the gate,
\* one on a high-credibility domain (100) and one on an unknown domain (50),
\* the first has the higher learningScore, by 2 or by 3.
C17_CredibilityDifference ==
  TwoCalls =>
    /\ HighVersusUnknown(prev, Current) =>
          prev.result.learningScore - result.learningScore \in {2, 3}
    /\ HighVersusUnknown(Current, prev) =>
          result.learningScore - prev.result.learningScore \in {2, 3}

\* The same content analysed on the unknown domain and then on the
\* high-credibility one, where the scores differ by 3.
C17_Witness ==
  /\ TwoCalls
  /\ HighVersusUnknown(Current, prev)
  /\ result.learningScore - prev.result.learningScore = 3

\* The same, where the scores differ by 2.
C17_WitnessTwo ==
  /\ TwoCalls
  /\ HighVersusUnknown(Current, prev)
  /\ result.learningScore - prev.result.learningScore = 2

\* The five signals of the blend are the same in the results r and q.
SameBlendSignals(r, q) ==
  /\ r.signals.contentQuality = q.signals.contentQuality
  /\ r.signals.learningIndicators = q.signals.learningIndicators
  /\ r.signals.languageRelevance = q.signals.languageRelevance
  /\ r.signals.topicalRelevance = q.signals.topicalRelevance
  /\ r.signals.sourceCredibility = q.signals.sourceCredibility

\* C18: of two analyses under the same threshold whose five other signals are
\* equal, learningScore, shouldTrack, category and reason are equal, whatever
\* their platform signals are.
C18_PlatformInformationalOnly ==
  ( /\ TwoCalls
    /\ IsScored(result) /\ IsScored(prev.result)
    /\ minimumLearningScore = prev.minimumLearningScore
    /\ SameBlendSignals(result, prev.result) )
  =>
    /\ result.learningScore = prev.result.learningScore
    /\ result.shouldTrack = prev.result.shouldTrack
    /\ result.category = prev.result.category
    /\ result.reason = prev.result.reason

\* Two analyses under the same threshold with the same five signals and
\* different platform scores (a YouTube video and a YouTube short).
C18_Witness ==
  /\ TwoCalls
  /\ IsScored(result) /\ IsScored(prev.result)
  /\ minimumLearningScore = prev.minimumLearningScore
  /\ SameBlendSignals(result, prev.result)
  /\ result.signals.platformSpecific.platformScore
       # prev.result.signals.platformSpecific.platformScore
  /\ result.learningScore = prev.result.learningScore

PlatformDomains == {"youtube.com", "reddit.com", "twitter.com", "x.com"}

\* The call returned for a URL that the URL constructor rejects.
UnparseableReturned == Returned /\ input.url \in UnparseableUrls

\* C20 as stated: for an unparseable URL the domain is the raw URL string and
\* the credibility and platform scores are the neutral defaults 50 and 50.
C20_Original ==
  UnparseableReturned =>
    /\ IsScored(result)
    /\ result.signals.sourceCredibility.domain = input.url
    /\ result.signals.sourceCredibility.credibilityScore = 50
    /\ result.signals.platformSpecific.platformScore = 50

\* C20 (amended): for an unparseable URL the analysis returns a result, the
\* domain is the lower-cased raw URL string, credibility is decided by the
\* listed domains that occur in that string, and the credibility and platform
\* scores are the neutral defaults 50 and 50 when none occurs in it.
C20_UnparseableUrl ==
  UnparseableReturned =>
    LET raw == UrlLowerCase[input.url]
        c   == result.signals.sourceCredibility
    IN  /\ IsScored(result)
        /\ c.domain = raw
        /\ c.isHighCredibility <=>
              \E d \in highCredibilityDomains : <<raw, d>> \in Substrings
        /\ c.isEducational <=>
              \E d \in educationalDomains : <<raw, d>> \in Substrings
        /\ c.credibilityScore =
              IF c.isHighCredibility THEN 100 ELSE IF c.isEducational THEN 80 ELSE 50
        /\ (\A d \in highCredibilityDomains \cup educationalDomains :
                <<raw, d>> \notin Substrings)
              => c.credibilityScore = 50
        /\ (\A d \in PlatformDomains : <<raw, d>> \notin Substrings)
              => result.signals.platformSpecific = [platformScore |-> 50]

\* A scored call on the string 'not a url': the domain is the string and both
\* scores are 50.
C20_Witness ==
  /\ UnparseableReturned
  /\ IsScored(result)
  /\ input.url = "not a url"
  /\ result.signals.sourceCredibility.domain = "not a url"
  /\ result.signals.sourceCredibility.credibilityScore = 50
  /\ result.signals.platformSpecific.platformScore = 50

\* A scored call on the string 'arxiv.org/abs/1234', which has no scheme: the
\* domain is the string and the credibility score is 100.
C20_WitnessListedDomain ==
  /\ UnparseableReturned
  /\ IsScored(result)
  /\ input.url = "arxiv.org/abs/1234"
  /\ result.signals.sourceCredibility.domain = "arxiv.org/abs/1234"
  /\ result.signals.sourceCredibility.credibilityScore = 100

\* C21: for empty content, with any url and title, the word count is 0, the
\* gate's isTooShort is true and analyzeContent returns a rejection
\* (shouldTrack false, learningScore 0): a result, not an error.
C21_EmptyContent ==
  (Returned /\ input.content = <<>>) =>
    /\ countWords(input.content) = 0
    /\ negativeSignals.isTooShort
    /\ negativeSignals.shouldBlock
    /\ DOMAIN result = BlockedFields
    /\ result.shouldTrack = FALSE
    /\ result.learningScore = 0
    /\ result.signals = negativeSignals

\* A call on empty content with an empty title: the reason is the length
\* floor, and the language condition is true as well.
C21_Witness ==
  /\ Returned
  /\ input.content = <<>>
  /\ input.title = <<>>
  /\ negativeSignals.isTooShort
  /\ negativeSignals.isWrongLanguage
  /\ result.reason = "Content too short"
  /\ result.learningScore = 0

\* C30: every result of analyzeContent has learningScore 0 (gated) or at
\* least 16 (scored): an input that passes the gate has languageScore 100,
\* qualityScore at least 10 and credibilityScore at least 50.
C30_NoScoreFromOneToFifteen ==
  Returned =>
    /\ result.learningScore = 0 \/ result.learningScore >= 16
    /\ Gated => result.learningScore = 0
    /\ Scored =>
         /\ result.signals.languageRelevance.languageScore = 100
         /\ result.signals.contentQuality.qualityScore >= 10
         /\ result.signals.sourceCredibility.credibilityScore >= 50
         /\ result.learningScore >= 16

\* A scored call with the lowest score: quality 10, no learning indicator, no
\* topic, credibility 50, learningScore 16.
C30_Witness ==
  /\ Scored
  /\ result.signals.contentQuality.qualityScore = 10
  /\ result.signals.learningIndicators.learningScore = 0
  /\ result.signals.topicalRelevance.topicalRelevance = 0
  /\ result.signals.sourceCredibility.credibilityScore = 50
  /\ result.learningScore = 16

\* analyzeContent returned for the arxiv.org URL, the title 'A tutorial on
\* transformer architecture' and one of the 800-word contents with code
\* fences and 'implementation' and 'algorithm' repeated.
TutorialReturned == Returned /\ input \in TutorialInputs

\* C22 as stated: the result has shouldTrack true, category 'technology',
\* learningScore above 65 and isHighCredibility true.
C22_Original ==
  TutorialReturned =>
    /\ IsScored(result)
    /\ result.shouldTrack
    /\ result.category = "technology"
    /\ result.learningScore > 65
    /\ result.signals.sourceCredibility.isHighCredibility

\* C22 (amended): the result has shouldTrack true, category 'technology' and
\* isHighCredibility true, and a learningScore of at least 57; the score is
\* above 65 only when the content also has structure and references.
C22_ArxivTutorial ==
  TutorialReturned =>
    /\ IsScored(result)
    /\ result.shouldTrack
    /\ result.category = "technology"
    /\ result.signals.sourceCredibility.isHighCredibility
    /\ result.learningScore >= 57
    /\ result.learningScore > 65 =>
          /\ result.signals.contentQuality.hasStructure
          /\ result.signals.contentQuality.hasReferences

\* The input with each word three times and nothing but the code fences:
\* quality 45, learning indicators 40, topical relevance 100, credibility
\* 100, learningScore 60, tracked.
C22_Witness ==
  /\ TutorialReturned
  /\ IsScored(result)
  /\ ~result.signals.contentQuality.hasStructure
  /\ ~result.signals.contentQuality.hasReferences
  /\ result.signals.contentQuality.qualityScore = 45
  /\ result.signals.learningIndicators.learningScore = 40
  /\ result.signals.topicalRelevance.topicalRelevance = 100
  /\ result.learningScore = 60
  /\ result.shouldTrack
  /\ result.category = "technology"

\* The input with structure and references as well: learningScore above 65.
C22_WitnessAbove65 ==
  /\ TutorialReturned
  /\ IsScored(result)
  /\ result.learningScore > 65

PlatformReturned == pc = "platform"

\* The handler whose record r is, by the fields it has.
HandlerOf(r) ==
  IF DOMAIN r = {"isEducationalChannel", "hasTranscriptIndicators", "isShortForm",
                 "platformScore"} THEN "video"
  ELSE IF DOMAIN r = {"isLearningSubreddit", "hasQualityDiscussion", "platformScore"}
    THEN "aggregator"
  ELSE IF DOMAIN r = {"hasThread", "hasLinks", "isShortTweet", "platformScore"}
    THEN "microblog"
  ELSE IF DOMAIN r = {"platformScore"} THEN "default"
  ELSE "none"

\* C27: analyzePlatformSpecific returns the record of exactly one handler,
\* chosen by the first of youtube.com (video), reddit.com (link aggregator),
\* twitter.com or x.com (microblogging) that occurs in the domain; every other
\* domain gets the default record with the flat platformScore 50.
C27_PlatformDispatch ==
  PlatformReturned =>
    LET domain == extractDomain(input.url)
        has(d) == <<domain, d>> \in Substrings
    IN  /\ HandlerOf(result) =
              IF has("youtube.com") THEN "video"
              ELSE IF has("reddit.com") THEN "aggregator"
              ELSE IF has("twitter.com") \/ has("x.com") THEN "microblog"
              ELSE "default"
        /\ HandlerOf(result) = "video" =>
              result = analyzeYouTubeContent(input.url, input.title, input.content)
        /\ HandlerOf(result) = "aggregator" =>
              result = analyzeRedditContent(input.url, input.title, input.content)
        /\ HandlerOf(result) = "microblog" =>
              result = analyzeTwitterContent(input.url, input.title, input.content)
        /\ HandlerOf(result) = "default" => result = [platformScore |-> 50]

\* analyzePlatformSpecific returned for a string that contains reddit.com and
\* youtube.com: the video handler ran.
C27_Witness ==
  /\ PlatformReturned
  /\ input.url = "reddit.com/r/programming?ref=youtube.com"
  /\ HandlerOf(result) = "video"

\* analyzePlatformSpecific returned for www.netflix.com, which contains
\* x.com: the microblogging handler ran.
C27_WitnessNetflix ==
  /\ PlatformReturned
  /\ input.url = "https://www.netflix.com/title/1"
  /\ HandlerOf(result) = "microblog"

\* The record of the microblogging handler for a post.
PostRecord(content) ==
  analyzeTwitterContent("https://twitter.com/user/status/1", <<>>, content)

\* C28: of two microblog posts with the same thread and link indicators, one
\* under 280 characters and one not, the short one has the lower
\* platformScore; and a post with a thread indicator or a link scores higher
\* than a post with neither.
C28_ShortPostPenalty ==
  (PlatformReturned /\ input \in PostInputs) =>
    \A other \in PostContents :
       /\ ( /\ result.isShortTweet
            /\ ~PostRecord(other).isShortTweet
            /\ PostRecord(other).hasThread = result.hasThread
            /\ PostRecord(other).hasLinks = result.hasLinks )
          => result.platformScore < PostRecord(other).platformScore
       /\ ( /\ result.hasThread \/ result.hasLinks
            /\ ~PostRecord(other).hasThread
            /\ ~PostRecord(other).hasLinks )
          => result.platformScore > PostRecord(other).platformScore

\* The part of C28 the handler keeps: a post with a thread indicator or a
\* link scores higher than a post with neither, and the length of a post does
\* not enter its platformScore.
C28_ThreadOrLinkHigher ==
  (PlatformReturned /\ input \in PostInputs) =>
    /\ result.platformScore =
         IF result.hasThread THEN 70 ELSE IF result.hasLinks THEN 50 ELSE 20
    /\ result.isShortTweet <=> StringLength(input.content) < 280


(***************************************************************************)
(* The browser extension: the content script's ReadingTracker on one page, *)
(* the background service worker, chrome.storage.local and the             *)
(* reading_sessions table behind POST /api/sessions.                       *)
(*                                                                         *)
(* Time is Date.now() in milliseconds since the ReadingTracker was         *)
(* constructed.                                                            *)
(***************************************************************************)

\* The page is unloaded at the latest this long after it was opened.
MaxClock == 36000

\* The instants at which the user acts and the page unloads: every five
\* seconds, and every half second around the ten seconds saveReadingSession
\* asks for.
Instants ==
  {i \in {5000 * k : k \in 0 .. 8} \cup {9000, 9500, 10500} : i <= MaxClock}

\* The notification of showManualTrackingNotification hides itself after
\* this long.
NotificationTimeout == 10000

\* The user acts on the page (activity or tab switch) at most this often.
MaxEvents == 3

\* The period of the inactivity timer of startTracking.
InactivityPeriod == 5000

\* The user is inactive after this long without an activity event.
InactivityLimit == 30000

\* saveReadingSession sends nothing below this many rounded seconds.
MinimumSessionSeconds == 10

\* Math.round of a non-negative quotient a / b: halves round up.
MathRound(a, b) == (2 * a + b) \div (2 * b)

\* The page has no timer.
NoTimer == -1

ReadingTracker ==
  [ phase |-> "loading", listeners |-> FALSE, notification |-> FALSE,
    forced |-> FALSE, nextCheck |-> NoTimer, isReading |-> FALSE,
    readingTime |-> 0, lastReadingStart |-> 0, lastActivity |-> 0,
    hidden |-> FALSE, now |-> 0, events |-> 0 ]

\* No sync is running.
NoSync == [step |-> "idle"]

ServiceWorker ==
  [ inbox |-> <<>>, saves |-> {}, sync |-> NoSync, pendingSessions |-> <<>>,
    rows |-> <<>>, stored |-> {}, saved |-> {}, syncs |-> 0 ]

startReading(t) ==
  IF ~t.isReading THEN [t EXCEPT !.isReading = TRUE, !.lastReadingStart = t.now]
  ELSE t

pauseReading(t) ==
  IF t.isReading
    THEN [t EXCEPT !.isReading = FALSE,
                   !.readingTime = t.readingTime + (t.now - t.lastReadingStart)]
    ELSE t

resumeReading(t) == IF ~t.isReading /\ ~t.hidden THEN startReading(t) ELSE t

\* setupEventListeners followed by startTracking, as init and
\* forceTrackContent call them.
setupEventListeners(t) ==
  [t EXCEPT !.listeners = TRUE, !.nextCheck = t.now + InactivityPeriod,
            !.phase = "tracking"]

\* analysisResult?.learningScore || 0
SessionLearningScore(r) ==
  IF "learningScore" \in DOMAIN r /\ r.learningScore # 0 THEN r.learningScore ELSE 0

\* analysisResult?.category || 'other'
SessionCategory(r) == IF "category" \in DOMAIN r THEN r.category ELSE "other"

\* The session object saveReadingSession builds; word_count, excerpt,
\* scroll_percentage and signals ride along and are left out.
SessionOf(t, in, r) ==
  [ title |-> in.title, url |-> in.url, content_type |-> "web",
    reading_time |-> MathRound(MathRound(t.readingTime, 1000), 60),
    timestamp |-> t.now,
    learning_score |-> SessionLearningScore(r),
    category |-> SessionCategory(r) ]

\* The pages the tracker is opened on: an article that is tracked, pages
\* the analysis does not track (empty, and scored below the threshold), and
\* a professional-network feed, tracked or not.
PageInputs ==
  [ url : {"https://arxiv.org/abs/1234", "https://www.linkedin.com/feed/"},
    title : {TutorialTitle},
    content : {<<>>, <<Run("the", minimumWordCount)>>,
               Text(<<Run("the", TutorialWords - 8), Run("fence", 2),
                      Run("implementation", 3), Run("algorithm", 3)>>)} ]

TrackerInit ==
  /\ minimumLearningScore = DefaultMinimumLearningScore
  /\ input \in PageInputs
  /\ negativeSignals = NoResult
  /\ result = NoResult
  /\ prev = NoCall
  /\ pc = "ready"
  /\ tracker = ReadingTracker
  /\ background = ServiceWorker

\* An init that tracks every page, whatever the analysis returned.
InitTracker_AlwaysTracks ==
  /\ tracker.phase = "loading"
  /\ negativeSignals' = detectNegativeSignals(input.title, input.content, input.url)
  /\ result' = analyzeContent(input.url, input.title, input.content, minimumLearningScore)
  /\ pc' = "returned"
  /\ tracker' = setupEventListeners(tracker)
  /\ UNCHANGED <<minimumLearningScore, input, prev, background>>

\* init: analyse the page, then track it or offer manual tracking.
InitTracker ==
  /\ tracker.phase = "loading"
  /\ negativeSignals' = detectNegativeSignals(input.title, input.content, input.url)
  /\ result' = analyzeContent(input.url, input.title, input.content, minimumLearningScore)
  /\ pc' = "returned"
  /\ tracker' = IF result'.shouldTrack THEN setupEventListeners(tracker)
                ELSE [tracker EXCEPT !.notification = TRUE, !.phase = "notified"]
  /\ UNCHANGED <<minimumLearningScore, input, prev, background>>

\* The 'Track Anyway' button of the notification: forceTrackContent.
forceTrackContent ==
  /\ tracker.notification
  /\ tracker' = [setupEventListeners(tracker) EXCEPT !.notification = FALSE,
                                                     !.forced = TRUE]
  /\ UNCHANGED <<minimumLearningScore, input, negativeSignals, result, prev, pc, background>>

\* 'Skip', the close button, or the notification's auto-hide.
DismissNotification ==
  /\ tracker.notification
  /\ tracker' = [tracker EXCEPT !.notification = FALSE, !.phase = "skipped"]
  /\ UNCHANGED <<minimumLearningScore, input, negativeSignals, result, prev, pc, background>>

\* scroll, mousemove, keydown or click on the visible page.
Activity ==
  /\ tracker.phase \in {"tracking", "notified", "skipped"}
  /\ ~tracker.hidden
  /\ tracker.events < MaxEvents
  /\ tracker' = IF tracker.listeners
                  THEN [startReading([tracker EXCEPT !.lastActivity = tracker.now])
                          EXCEPT !.events = tracker.events + 1]
                  ELSE [tracker EXCEPT !.events = tracker.events + 1]
  /\ UNCHANGED <<minimumLearningScore, input, negativeSignals, result, prev, pc, background>>

\* The tab is hidden or shown again.
VisibilityChange ==
  /\ tracker.phase \in {"tracking", "notified", "skipped"}
  /\ tracker.events < MaxEvents
  /\ LET t == [tracker EXCEPT !.hidden = ~tracker.hidden,
                              !.events = tracker.events + 1]
     IN  tracker' = IF ~t.listeners THEN t
                    ELSE IF t.hidden THEN pauseReading(t) ELSE resumeReading(t)
  /\ UNCHANGED <<minimumLearningScore, input, negativeSignals, result, prev, pc, background>>

\* The callback of startTracking's setInterval.
InactivityCheck ==
  /\ tracker.phase = "tracking"
  /\ tracker.nextCheck = tracker.now
  /\ LET t == [tracker EXCEPT !.nextCheck = tracker.now + InactivityPeriod]
     IN  tracker' = IF t.now - t.lastActivity > InactivityLimit /\ t.isReading
                      THEN pauseReading(t) ELSE t
  /\ UNCHANGED <<minimumLearningScore, input, negativeSignals, result, prev, pc, background>>

\* The earliest of a set of instants.
Earliest(S) == CHOOSE i \in S : \A j \in S : i <= j

\* Time passes on the open page, up to the next instant or timer callback;
\* a timer callback that is due runs first, and so does the notification's
\* auto-hide.
Tick ==
  /\ tracker.phase \in {"tracking", "notified", "skipped"}
  /\ tracker.nextCheck # tracker.now
  /\ ~(tracker.notification /\ tracker.now = NotificationTimeout)
  /\ LET due == {i \in Instants : i > tracker.now}
                \cup {i \in {tracker.nextCheck} : i > tracker.now /\ i <= MaxClock}
     IN  /\ due # {}
         /\ tracker' = [tracker EXCEPT !.now = Earliest(due)]
  /\ UNCHANGED <<minimumLearningScore, input, negativeSignals, result, prev, pc, background>>

\* beforeunload: with listeners, ReadingTracker.saveReadingSession runs and
\* may send the session to the background script.
Unload ==
  /\ tracker.phase \in {"tracking", "notified", "skipped"}
  /\ LET t == IF tracker.listeners THEN pauseReading(tracker) ELSE tracker
         send == /\ tracker.listeners
                 /\ ~(MathRound(t.readingTime, 1000) < MinimumSessionSeconds)
     IN  /\ tracker' = [t EXCEPT !.phase = "unloaded", !.notification = FALSE]
         /\ background' =
              IF send
                THEN [background EXCEPT
                        !.inbox = Append(background.inbox, SessionOf(t, input, result))]
                ELSE background
  /\ UNCHANGED <<minimumLearningScore, input, negativeSignals, result, prev, pc>>

(***************************************************************************)
(* POST /api/sessions and the background service worker.                   *)
(***************************************************************************)

\* The set of elements of a sequence.
Range(seq) == {seq[i] : i \in DOMAIN seq}

\* The row POST /api/sessions inserts for a request body: learning_score || 0
\* and category || 'other' for fields the body lacks.
InsertedRow(body) ==
  [ title |-> body.title, url |-> body.url,
    content_type |-> IF "content_type" \in DOMAIN body THEN body.content_type ELSE "web",
    reading_time |-> IF "reading_time" \in DOMAIN body THEN body.reading_time ELSE 0,
    learning_score |-> IF "learning_score" \in DOMAIN body /\ body.learning_score # 0
                         THEN body.learning_score ELSE 0,
    category |-> IF "category" \in DOMAIN body THEN body.category ELSE "other" ]

\* The response of POST /api/sessions is ok: the API is reachable, the body
\* has a title and the insert succeeds.
ResponseOk(body, available) == available /\ body.title # <<>>

\* The body the background's saveReadingSession posts for a session; notes and
\* tags, derived from the session, are left out.
BackgroundPostBody(session) ==
  [ title |-> session.title, url |-> session.url,
    content_type |-> session.content_type, reading_time |-> session.reading_time ]

\* A call of the background's saveReadingSession, from the message listener
\* or from syncPendingSessions, about to fetch.
SaveTask(session, origin) ==
  [session |-> session, step |-> "fetch", read |-> <<>>, origin |-> origin]

\* The caller of a finished saveReadingSession goes on: the sync loop counts
\* the session as synced or pushes it on failedSessions.
Settle(b, task, ok) ==
  IF task.origin = "sync"
    THEN [b EXCEPT !.sync = [b.sync EXCEPT
                               !.step = "loop", !.i = b.sync.i + 1,
                               !.failed = IF ok THEN b.sync.failed
                                          ELSE Append(b.sync.failed, task.session)]]
    ELSE b

\* chrome.runtime.onMessage: a saveReadingSession message arrives.
ReceiveMessage ==
  /\ "inbox" \in DOMAIN background
  /\ background.inbox # <<>>
  /\ background' = [background EXCEPT
                      !.inbox = Tail(background.inbox),
                      !.saves = background.saves
                                  \cup {SaveTask(Head(background.inbox), "message")}]
  /\ UNCHANGED <<minimumLearningScore, input, negativeSignals, result, prev, pc, tracker>>

\* saveReadingSession: the fetch returns; on an error the session goes to
\* storeSessionLocally.
SaveFetch ==
  /\ "saves" \in DOMAIN background
  /\ \E task \in background.saves, available \in BOOLEAN :
       /\ task.step = "fetch"
       /\ LET body == BackgroundPostBody(task.session)
              rest == background.saves \ {task}
          IN  background' =
                IF ResponseOk(body, available)
                  THEN Settle([background EXCEPT
                                 !.rows = Append(background.rows, InsertedRow(body)),
                                 !.saved = background.saved \cup {task.session},
                                 !.saves = rest], task, TRUE)
                  ELSE [background EXCEPT
                          !.saves = rest \cup {[task EXCEPT !.step = "get"]}]
  /\ UNCHANGED <<minimumLearningScore, input, negativeSignals, result, prev, pc, tracker>>

\* storeSessionLocally: chrome.storage.local.get reads pendingSessions.
StoreGet ==
  /\ "saves" \in DOMAIN background
  /\ \E task \in background.saves :
       /\ task.step = "get"
       /\ background' =
            [background EXCEPT
               !.saves = (background.saves \ {task})
                           \cup {[task EXCEPT !.step = "set",
                                              !.read = background.pendingSessions]}]
  /\ UNCHANGED <<minimumLearningScore, input, negativeSignals, result, prev, pc, tracker>>

\* storeSessionLocally: chrome.storage.local.set writes the list read, with the
\* session pushed; saveReadingSession then rethrows.
StoreSet ==
  /\ "saves" \in DOMAIN background
  /\ \E task \in background.saves :
       /\ task.step = "set"
       /\ background' =
            Settle([background EXCEPT
                      !.pendingSessions = Append(task.read, task.session),
                      !.stored = background.stored \cup {task.session},
                      !.saves = background.saves \ {task}], task, FALSE)
  /\ UNCHANGED <<minimumLearningScore, input, negativeSignals, result, prev, pc, tracker>>

(***************************************************************************)
(* Manual newsletter curation on the professional-network feed.            *)
(***************************************************************************)

\* The word counts extractPostContent finds in a post.
PostWordCounts == {9, 10, 50}

\* handleManualNewsletterAdd rejects posts below this many words.
MinimumPostWords == 10

\* The title extractPostContent gives a post: author and first line.
PostTitle == <<Run("tutorial", 1)>>

\* A newsletter item posted without a score and a category of its own.
LinkedInNewsletterItem_Unscored(url) ==
  [ title |-> PostTitle, url |-> url, content_type |-> "linkedin_newsletter",
    reading_time |-> 2 ]

\* The session saveLinkedInNewsletterItem posts, all of it the request body.
LinkedInNewsletterItem(url) ==
  [ title |-> PostTitle, url |-> url, content_type |-> "linkedin_newsletter",
    reading_time |-> 2, learning_score |-> 75, category |-> "linkedin_newsletter" ]

\* A click on an injected 'Add to Newsletter' button: handleManualNewsletterAdd
\* and, for a post long enough, saveLinkedInNewsletterItem's own POST.
ManualNewsletterAdd ==
  /\ tracker.phase = "tracking"
  /\ tracker.listeners
  /\ StringIncludes(input.url, "linkedin.com")
  /\ ~tracker.hidden
  /\ tracker.events < MaxEvents
  /\ tracker' = [tracker EXCEPT !.events = tracker.events + 1]
  /\ \E wordCount \in PostWordCounts, available \in BOOLEAN :
       LET item == LinkedInNewsletterItem(input.url)
       IN  background' =
             IF ~(wordCount < MinimumPostWords) /\ ResponseOk(item, available)
               THEN [background EXCEPT
                       !.rows = Append(background.rows, InsertedRow(item))]
               ELSE background
  /\ UNCHANGED <<minimumLearningScore, input, negativeSignals, result, prev, pc>>

TrackerNext ==
  \/ InitTracker
  \/ forceTrackContent
  \/ DismissNotification
  \/ Activity
  \/ VisibilityChange
  \/ InactivityCheck
  \/ Tick
  \/ ManualNewsletterAdd
  \/ Unload
  \/ ReceiveMessage
  \/ SaveFetch
  \/ StoreGet
  \/ StoreSet

TrackerSpec == TrackerInit /\ [][TrackerNext]_vars

(***************************************************************************)
(* syncPendingSessions, run every five minutes by the background script,   *)
(* beside the saves that content scripts of several tabs ask for.          *)
(***************************************************************************)

\* The number of sessions the tabs send.
MaxSessions == 2

\* The number of times the sync timer fires.
MaxSyncs == 2

\* The sessions the tabs' content scripts send: pages read for a minute.
TabSessions ==
  { [ title |-> TutorialTitle, url |-> "https://arxiv.org/abs/1234",
      content_type |-> "web", reading_time |-> 1, timestamp |-> k,
      learning_score |-> 60, category |-> "technology" ] : k \in 1 .. MaxSessions }

SyncInit ==
  /\ minimumLearningScore = DefaultMinimumLearningScore
  /\ input = NoCall
  /\ negativeSignals = NoResult
  /\ result = NoResult
  /\ prev = NoCall
  /\ pc = "ready"
  /\ tracker = NoTracker
  /\ background = ServiceWorker

\* A tab's ReadingTracker.saveReadingSession sends its session.
SendSession ==
  /\ \E session \in TabSessions :
       /\ \A other \in TabSessions :
            other.timestamp < session.timestamp =>
              other \in background.saved \cup background.stored
                          \cup Range(background.inbox)
                          \cup {task.session : task \in background.saves}
       /\ session \notin background.saved \cup background.stored
                           \cup Range(background.inbox)
                           \cup {task.session : task \in background.saves}
       /\ background' = [background EXCEPT !.inbox = Append(background.inbox, session)]
  /\ UNCHANGED <<minimumLearningScore, input, negativeSignals, result, prev, pc, tracker>>

\* The sync timer fires: syncPendingSessions reads pendingSessions and
\* resolves at once when the list is empty.
SyncGet ==
  /\ background.sync = NoSync
  /\ background.syncs < MaxSyncs
  /\ background' =
       [background EXCEPT
          !.syncs = background.syncs + 1,
          !.sync = IF background.pendingSessions = <<>> THEN NoSync
                   ELSE [step |-> "loop", sessions |-> background.pendingSessions,
                         i |-> 1, failed |-> <<>>]]
  /\ UNCHANGED <<minimumLearningScore, input, negativeSignals, result, prev, pc, tracker>>

\* The loop of syncPendingSessions calls saveReadingSession on the next
\* session and awaits it.
SyncSave ==
  /\ background.sync.step = "loop"
  /\ background.sync.i <= Len(background.sync.sessions)
  /\ background' =
       [background EXCEPT
          !.sync = [background.sync EXCEPT !.step = "await"],
          !.saves = background.saves
                      \cup {SaveTask(background.sync.sessions[background.sync.i], "sync")}]
  /\ UNCHANGED <<minimumLearningScore, input, negativeSignals, result, prev, pc, tracker>>

\* After the loop: chrome.storage.local.set({pendingSessions: failedSessions}).
SyncSet ==
  /\ background.sync.step = "loop"
  /\ background.sync.i > Len(background.sync.sessions)
  /\ background' = [background EXCEPT !.pendingSessions = background.sync.failed,
                                      !.sync = NoSync]
  /\ UNCHANGED <<minimumLearningScore, input, negativeSignals, result, prev, pc, tracker>>

SyncNext ==
  \/ SendSession
  \/ ReceiveMessage
  \/ SaveFetch
  \/ StoreGet
  \/ StoreSet
  \/ SyncGet
  \/ SyncSave
  \/ SyncSet

SyncSpec == SyncInit /\ [][SyncNext]_vars

(***************************************************************************)
(* The extension's tracking, saving and syncing.                           *)
(***************************************************************************)

\* The sessions the background script has been handed so far are in
\* flight nowhere: no message waits, no save runs, no sync runs.
BackgroundQuiet ==
  /\ background.inbox = <<>>
  /\ background.saves = {}
  /\ background.sync = NoSync

\* C26: a session whose save failed and that storeSessionLocally stored is,
\* once the background script is quiet again, either saved by the API or
\* still in pendingSessions: none is dropped, whatever the interleaving of
\* save requests, API failures and syncs.
C26_NoSessionDropped ==
  BackgroundQuiet =>
    \A session \in background.stored :
      session \in background.saved \/ session \in Range(background.pendingSessions)

\* The sessions a page's content script has handed to the background script.
SessionsSent ==
  Range(background.inbox) \cup {task.session : task \in background.saves}
    \cup background.saved \cup background.stored

\* C29: the page's unload sends a session exactly when the accumulated
\* reading time, the open interval included, is more than ten seconds.
C29_LongerThanTenSeconds ==
  tracker.phase = "unloaded" /\ tracker.listeners =>
    (SessionsSent # {} <=> tracker.readingTime > 10000)

\* What the code does: it sends from nine and a half seconds on, the
\* rounded number of seconds being ten or more.
C29_SendsFromNineAndAHalf ==
  tracker.phase = "unloaded" /\ tracker.listeners =>
    (SessionsSent # {} <=> tracker.readingTime >= 9500)

\* C23: every row stored for an automatically tracked page carries the
\* learningScore and the category of the page's AnalysisResult.
C23_ScoreAndCategoryStored ==
  \A i \in DOMAIN background.rows :
    background.rows[i].content_type = "web" /\ ~tracker.forced =>
      /\ background.rows[i].learning_score = result.learningScore
      /\ background.rows[i].category = result.category

\* The message the content script sends does carry them.
C23_SessionCarriesScoreAndCategory ==
  \A session \in SessionsSent :
    ~tracker.forced =>
      /\ session.learning_score = result.learningScore
      /\ session.category = result.category

\* The page's analysis has returned and does not track the page, and the
\* user has not clicked 'Track Anyway'.
NotTracked ==
  /\ tracker.phase # "loading"
  /\ ~result.shouldTrack
  /\ ~tracker.forced

\* C24: listeners and the inactivity timer exist only on a page whose
\* analysis returned shouldTrack = true or that the user force-tracked; on
\* any other page nothing ever reaches the background script or the API,
\* whatever the user does before the page unloads.
C24_TracksOnlyWhenAdmitted ==
  /\ tracker.listeners \/ tracker.nextCheck # NoTimer =>
       result.shouldTrack \/ tracker.forced
  /\ NotTracked =>
       /\ ~tracker.listeners
       /\ tracker.nextCheck = NoTimer
       /\ SessionsSent = {}
       /\ background = ServiceWorker

\* An untracked page unloaded after ten and a half seconds in which the user
\* was active and switched tabs.
C24_Witness ==
  /\ NotTracked
  /\ tracker.phase = "unloaded"
  /\ tracker.events = MaxEvents
  /\ tracker.now >= 10500

\* A page the analysis did not track, force-tracked, whose session was sent.
C24_WitnessTrackAnyway ==
  /\ tracker.phase = "unloaded"
  /\ ~result.shouldTrack
  /\ tracker.forced
  /\ SessionsSent # {}

\* The rows of manually curated posts.
NewsletterRows(rows) ==
  {i \in DOMAIN rows : rows[i].content_type = "linkedin_newsletter"}

\* C25: a step that saves a manually added post leaves the analyzer's
\* result of the page alone (analyzeContent does not run), and the row it
\* stores has learning_score 75 and category 'linkedin_newsletter'.
C25_ManualAddFixedScore ==
  [][ NewsletterRows(background'.rows) # NewsletterRows(background.rows) =>
        /\ UNCHANGED <<result, negativeSignals, pc>>
        /\ \A i \in NewsletterRows(background'.rows) :
             /\ background'.rows[i].learning_score = 75
             /\ background'.rows[i].category = "linkedin_newsletter" ]_vars

\* A post saved from a feed the analysis had blocked or scored below the
\* threshold, and that the user force-tracked.
C25_Witness ==
  /\ NewsletterRows(background.rows) # {}
  /\ tracker.forced
  /\ ~result.shouldTrack

\* A post saved from a feed the analysis tracked with a score of its own.
C25_WitnessTrackedFeed ==
  /\ NewsletterRows(background.rows) # {}
  /\ result.shouldTrack
  /\ result.learningScore # 75
  /\ result.category # "linkedin_newsletter"

====
